---- MODULE Spec2Model ----
(***************************************************************************)
(* A model of gputester (src/main.cpp): the capability library loader,     *)
(* the driver-info resolver (getDriverInfo), the display-configuration,    *)
(* refresh-rate and DPI resolvers, and the adapter/output scan of wmain.   *)
(*                                                                         *)
(* Conventions.                                                            *)
(*  - A wide string is a sequence of one-character strings; NUL is the     *)
(*    terminator the OS pads property buffers with.                        *)
(*  - A float is an exact fraction <<n, d>> in lowest terms; <<1, 0>> is   *)
(*    +infinity and <<0, 0>> is NaN, as IEEE-754 division gives them.      *)
(*  - A provider name is abstracted to the set of vendor markers it        *)
(*    contains: the code only ever tests it with find(marker).             *)
(*  - assert() is compiled out (NDEBUG): the checks that follow each       *)
(*    assert in the source are the behaviour modelled.                     *)
(*  - The Registry class (registry.hpp) is not part of src/: each of its   *)
(*    calls is skipped, throws a std::exception, or answers.               *)
(*  - SpecDriver runs one call of getDriverInfo, SpecOutput the body of    *)
(*    the output loop for one output, SpecMain wmain with the outcome of   *)
(*    those two drawn from what the other specifications can end with.     *)
(*    SpecLoader runs the constructors of the library singletons,          *)
(*    SpecVendor the vendor lookup of one adapter, and SpecHandles either  *)
(*    resolver that acquires a native handle.  SpecScheduled runs the      *)
(*    path block and the DPI block of one output under weak fairness.      *)
(*  - The SDR white level is computed in single precision, each operation  *)
(*    rounded to 24 significant bits; the other floats of the model are    *)
(*    quotients of small integers and compared as exact fractions.         *)
(***************************************************************************)
EXTENDS Integers, Sequences, FiniteSets, TLC

\* ------------------------------------------------------------------ bounds
MaxVerLen == 6
MaxDevices == 2
\* The exports of one library that GetProcAddress may fail to find.
MaxMissing == 1
\* The calls of vendorIdToVendor made with one ID.
MaxVendorCalls == 2

\* --------------------------------------------------------- string helpers
NUL == "NUL"
NoIndex == 0

\* std::wstring::find(ch, from): the first 1-based position >= from holding
\* ch, or NoIndex (npos).
IndexOf(s, ch, from) ==
    LET hits == {i \in from..Len(s) : s[i] = ch}
    IN  IF hits = {} THEN NoIndex ELSE CHOOSE i \in hits : \A j \in hits : i <= j

\* std::wstring::erase(index, 1), 1-based.
EraseAt(s, i) == SubSeq(s, 1, i - 1) \o SubSeq(s, i + 1, Len(s))

\* std::wstring::substr(pos) with pos 0-based: the characters after the
\* first pos ones.
SubstrFrom(s, pos) == SubSeq(s, pos + 1, Len(s))

\* The 512-character zero-filled buffer after a property read: the value,
\* then the padding (two terminators stand for the rest of the buffer).
Buffer(value) == value \o <<NUL, NUL>>

\* shrinkToFit: cut the string at its first embedded terminator.
ShrinkToFit(str) ==
    IF str = <<>> THEN str
    ELSE LET index == IndexOf(str, NUL, 1)
         IN  IF index = NoIndex THEN str ELSE SubSeq(str, 1, index - 1)

StringsUpTo(S, n) == UNION {[1..k -> S] : k \in 0..n}

\* ---------------------------------------------------- capability loader
WinOld == 0
WinVista == 1
Win7 == 2
Win8Point1 == 3
Win10 == 4
OsVersions == {WinOld, WinVista, Win7, Win8Point1, Win10}

Libs == {"user32", "gdi32", "dxgi", "shcore", "setupapi"}

SymbolsOf(lib) ==
    CASE lib = "user32" -> {"GetMonitorInfoW", "EnumDisplaySettingsW",
                            "GetDisplayConfigBufferSizes", "DisplayConfigGetDeviceInfo",
                            "QueryDisplayConfig", "SetProcessDpiAwarenessContext"}
      [] lib = "gdi32" -> {"CreateDCW", "DeleteDC", "GetDeviceCaps"}
      [] lib = "dxgi" -> {"CreateDXGIFactory1"}
      [] lib = "shcore" -> {"GetDpiForMonitor"}
      [] lib = "setupapi" -> {"SetupDiDestroyDeviceInfoList", "SetupDiEnumDeviceInfo",
                              "SetupDiGetClassDevsW", "SetupDiGetDevicePropertyW"}

AllSymbols == UNION {SymbolsOf(lib) : lib \in Libs}

LibOf(sym) == CHOOSE lib \in Libs : sym \in SymbolsOf(lib)

\* The version test that guards LOAD_API(sym) in the library's constructor.
Gate(sym) ==
    CASE sym \in {"GetDisplayConfigBufferSizes", "DisplayConfigGetDeviceInfo",
                  "SetupDiGetClassDevsW", "SetupDiGetDevicePropertyW"} -> WinVista
      [] sym \in {"QueryDisplayConfig", "CreateDXGIFactory1"} -> Win7
      [] sym = "GetDpiForMonitor" -> Win8Point1
      [] sym = "SetProcessDpiAwarenessContext" -> Win10
      [] OTHER -> WinOld

\* A slip the gate claim must notice: LOAD_API is run for every symbol of a
\* loaded library, whatever the version of the host.
LookedUpUngated(loadable, os) ==
    {sym \in AllSymbols : LibOf(sym) \in loadable}

\* The symbols LOAD_API is run for: the library loaded and the gate passed.
LookedUp(loadable, os) ==
    {sym \in AllSymbols : LibOf(sym) \in loadable /\ os >= Gate(sym)}

\* The non-null function pointers after the constructors ran: those looked
\* up for which GetProcAddress found the export.
ResolvedBy(loadable, os, exported) == LookedUp(loadable, os) \cap exported

\* ---------------------------------------------------------- vendors
\* A std::uint64_t is four 16-bit words, the most significant first.
U64(high, low) == <<0, 0, high, low>>
AllOnes == <<65535, 65535, 65535, 65535>>

\* vendorIdMap, lines 121-142, in the order of its initializer list.
vendorIdMap ==
    << <<U64(0, \H0000), "Unknown">>,
       <<U64(0, \H1002), "AMD">>,
       <<U64(0, \H106B), "Apple">>,
       <<U64(0, \H13B5), "ARM">>,
       <<U64(0, \H1AE0), "Google">>,
       <<U64(0, \H1010), "ImgTec">>,
       <<U64(0, \H8086), "Intel">>,
       <<U64(0, \H1414), "Microsoft">>,
       <<U64(0, \H10DE), "Nvidia">>,
       <<U64(0, \H5143), "Qualcomm">>,
       <<U64(0, \H144D), "Samsung">>,
       <<U64(0, \H14E4), "Broadcom">>,
       <<U64(0, \H15AD), "VMWare">>,
       <<U64(0, \H1AF4), "VirtIO">>,
       <<U64(1, \H0001), "Vivante">>,
       <<U64(1, \H0002), "VeriSilicon">>,
       <<U64(1, \H0003), "Kazan">>,
       <<U64(1, \H0004), "CodePlay">>,
       <<U64(1, \H0005), "Mesa">>,
       <<U64(1, \H0006), "PoCL">> >>

\* vendorNameMap, lines 144-165.
vendorNameMap ==
    << <<"Unknown", "Unknown">>,
       <<"AMD", "AMD">>,
       <<"Apple", "Apple">>,
       <<"ARM", "ARM">>,
       <<"Google", "Google">>,
       <<"ImgTec", "Img Tec">>,
       <<"Intel", "Intel">>,
       <<"Microsoft", "Microsoft">>,
       <<"Nvidia", "Nvidia">>,
       <<"Qualcomm", "Qualcomm">>,
       <<"Samsung", "Samsung">>,
       <<"Broadcom", "Broadcom">>,
       <<"VMWare", "VMWare">>,
       <<"VirtIO", "VirtIO">>,
       <<"Vivante", "Vivante">>,
       <<"VeriSilicon", "VeriSilicon">>,
       <<"Kazan", "Kazan">>,
       <<"CodePlay", "CodePlay">>,
       <<"Mesa", "Mesa">>,
       <<"PoCL", "PoCL">> >>

\* std::unordered_map::find: the entry with the key (the first inserted of
\* equal keys is the one the map holds), or NoIndex for end().
MapFind(map, key) ==
    LET hits == {i \in 1..Len(map) : map[i][1] = key}
    IN  IF hits = {} THEN NoIndex ELSE CHOOSE i \in hits : \A j \in hits : i <= j

\* A slip the vendor claim must notice: the ID is narrowed to its low 32
\* bits before the lookup.
VendorIdToVendorNarrowed(vendorId) ==
    LET it == MapFind(vendorIdMap, <<0, 0, vendorId[3], vendorId[4]>>)
    IN  IF it # NoIndex THEN vendorIdMap[it][2] ELSE "Unknown"

\* vendorIdToVendor, lines 358-364.
VendorIdToVendor(vendorId) ==
    LET it == MapFind(vendorIdMap, vendorId)
    IN  IF it # NoIndex THEN vendorIdMap[it][2] ELSE "Unknown"

\* vendorNameMap.at(vendor): the name, or std::out_of_range thrown.
VendorNameAt(vendor) ==
    LET it == MapFind(vendorNameMap, vendor)
    IN  IF it # NoIndex THEN vendorNameMap[it][2] ELSE "out_of_range"

\* The IDs the calls are made with: every registered one, neighbours of
\* registered ones, and IDs that need more than 16 and more than 32 bits.
VendorIds ==
    {vendorIdMap[i][1] : i \in 1..Len(vendorIdMap)} \cup
    {U64(0, \H0001), U64(0, \H1003), U64(0, \H8087), U64(0, \HFFFF), U64(1, \H0000),
     U64(1, \H0007), U64(1, \H1002), U64(\HFFFF, \HFFFF),
     <<0, 1, 0, \H1002>>, <<1, 0, 0, \H8086>>, <<0, 1, 1, \H0001>>, AllOnes}

\* ------------------------------------------------------------- floats
NaN == <<0, 0>>
Infinity == <<1, 0>>

RECURSIVE GCD(_, _)
GCD(a, b) == IF b = 0 THEN a ELSE GCD(b, a % b)

\* static_cast<float>(n): the integers of the model are exact in a float.
Float(n) == <<n, 1>>

\* static_cast<float>(n) / static_cast<float>(d) for unsigned n and d.
FloatDiv(n, d) ==
    IF d = 0 THEN (IF n = 0 THEN NaN ELSE Infinity)
    ELSE <<n \div GCD(n, d), d \div GCD(n, d)>>

\* a < b on floats: false when either is NaN.
FloatLess(a, b) == a # NaN /\ b # NaN /\ a[1] * b[2] < b[1] * a[2]

\* std::max(a, b) == (a < b) ? b : a
StdMax(a, b) == IF FloatLess(a, b) THEN b ELSE a

kDefaultSDRWhiteLevel == Float(200)
kDefaultRefreshRate == Float(60)
USER_DEFAULT_SCREEN_DPI == 96

\* ------------------------------------------ display-configuration paths
\* A DISPLAYCONFIG_PATH_INFO: id stands for the source and target ids,
\* source for what DisplayConfigGetDeviceInfo(GET_SOURCE_NAME) answers for
\* it (NoAnswer: the call fails), Numerator and Denominator for
\* targetInfo.refreshRate.
NoAnswer == <<"?">>
Display1 == <<"D", "1">>
Display2 == <<"D", "2">>
SourceNames == {Display1, Display2}
PathRates == {<<0, 1>>, <<60, 0>>, <<60, 1>>, <<119, 2>>}

\* A value-initialised element of the resized vector: no adapter has the
\* LUID 0, so the device-info call fails for it.
ZeroPath == [id |-> 0, source |-> NoAnswer, Numerator |-> 0, Denominator |-> 0]

\* wcscmp(a, b) != 0: the characters before the first terminator differ.
CStr(str) ==
    LET stop == IndexOf(str, NUL, 1)
    IN  IF stop = NoIndex THEN str ELSE SubSeq(str, 1, stop - 1)
WcsDiffer(a, b) == CStr(a) # CStr(b)

\* A slip the filter claim must notice: a path whose name cannot be read is
\* kept.
DiscardPathKeepsUnnamed(targetDeviceName, path) ==
    IF path.source # NoAnswer
    THEN WcsDiffer(targetDeviceName, Buffer(path.source))
    ELSE FALSE

\* The predicate of std::remove_if, lines 394-406.
DiscardPath(targetDeviceName, path) ==
    IF path.source # NoAnswer
    THEN WcsDiffer(targetDeviceName, Buffer(path.source))
    ELSE TRUE

\* std::remove_if followed by erase, lines 393-407: the elements the
\* predicate rejects are kept, in their order.
RECURSIVE RemoveIfErase(_, _)
RemoveIfErase(targetDeviceName, paths) ==
    IF paths = <<>> THEN <<>>
    ELSE IF DiscardPath(targetDeviceName, Head(paths))
         THEN RemoveIfErase(targetDeviceName, Tail(paths))
         ELSE <<Head(paths)>> \o RemoveIfErase(targetDeviceName, Tail(paths))

\* Lines 452-458: the position of the first path whose refresh rate has a
\* positive numerator and denominator, or NoIndex.
RECURSIVE FirstRatedFrom(_, _)
FirstRatedFrom(pathInfos, at) ==
    IF at > Len(pathInfos) THEN NoIndex
    ELSE IF pathInfos[at].Numerator > 0 /\ pathInfos[at].Denominator > 0
         THEN at
         ELSE FirstRatedFrom(pathInfos, at + 1)
FirstRated(pathInfos) == FirstRatedFrom(pathInfos, 1)

\* What the OS answers getRefreshRate: EnumDisplaySettingsW (whether it
\* succeeds, and dmDisplayFrequency), CreateDCW (a handle or null),
\* GetDeviceCaps(VREFRESH).
Frequencies == {0, 1, 75}
RefreshAnswers ==
    {os \in [settingsOk : BOOLEAN, dmDisplayFrequency : Frequencies, hdc : BOOLEAN,
             caps : Frequencies] :
        /\ os.settingsOk \/ os.dmDisplayFrequency = 0
        /\ os.hdc \/ os.caps = 0}

NoCalls == [settings |-> 0, create |-> 0, caps |-> 0, delete |-> 0]

\* A slip the refresh-rate claims must notice: the device context is asked
\* although a path has a rate.
GetRefreshRateAsksFirst(targetDeviceName, pathInfos, rateOut, api, os) ==
    LET rated == FirstRated(pathInfos)
        asked == [NoCalls EXCEPT !.create = 1, !.caps = 1, !.delete = 1]
    IN  IF os.hdc /\ os.caps > 1
        THEN [ok |-> TRUE, calls |-> asked, rate |-> Float(os.caps)]
        ELSE IF rated # NoIndex
        THEN [ok |-> TRUE, calls |-> asked,
              rate |-> FloatDiv(pathInfos[rated].Numerator, pathInfos[rated].Denominator)]
        ELSE [ok |-> FALSE, calls |-> asked, rate |-> rateOut]

\* A slip the fallback claim must notice: a display-settings frequency of 1
\* is taken for an answer.
GetRefreshRateAcceptsOne(targetDeviceName, pathInfos, rateOut, api, os) ==
    LET rated == FirstRated(pathInfos)
        useSettings == "EnumDisplaySettingsW" \in api
        useDc == {"CreateDCW", "DeleteDC", "GetDeviceCaps"} \subseteq api
        afterSettings == [NoCalls EXCEPT !.settings = IF useSettings THEN 1 ELSE 0]
        afterDc == [afterSettings EXCEPT !.create = 1,
                                         !.caps = IF os.hdc THEN 1 ELSE 0,
                                         !.delete = IF os.hdc THEN 1 ELSE 0]
    IN  IF rated # NoIndex
        THEN [ok |-> TRUE, calls |-> NoCalls,
              rate |-> FloatDiv(pathInfos[rated].Numerator, pathInfos[rated].Denominator)]
        ELSE IF targetDeviceName = <<>>
        THEN [ok |-> FALSE, calls |-> NoCalls, rate |-> rateOut]
        ELSE IF useSettings /\ os.settingsOk /\ os.dmDisplayFrequency > 0
        THEN [ok |-> TRUE, calls |-> afterSettings, rate |-> Float(os.dmDisplayFrequency)]
        ELSE IF ~useDc
        THEN [ok |-> FALSE, calls |-> afterSettings, rate |-> rateOut]
        ELSE IF os.hdc /\ os.caps > 1
        THEN [ok |-> TRUE, calls |-> afterDc, rate |-> Float(os.caps)]
        ELSE [ok |-> FALSE, calls |-> afterDc, rate |-> rateOut]

\* getRefreshRate, lines 451-490.  rate is rateOut after the call; calls
\* counts the calls made of each entry point.
GetRefreshRate(targetDeviceName, pathInfos, rateOut, api, os) ==
    LET rated == FirstRated(pathInfos)
        useSettings == "EnumDisplaySettingsW" \in api
        useDc == {"CreateDCW", "DeleteDC", "GetDeviceCaps"} \subseteq api
        afterSettings == [NoCalls EXCEPT !.settings = IF useSettings THEN 1 ELSE 0]
        afterDc == [afterSettings EXCEPT !.create = 1,
                                         !.caps = IF os.hdc THEN 1 ELSE 0,
                                         !.delete = IF os.hdc THEN 1 ELSE 0]
    IN  IF rated # NoIndex
        THEN [ok |-> TRUE, calls |-> NoCalls,
              rate |-> FloatDiv(pathInfos[rated].Numerator, pathInfos[rated].Denominator)]
        ELSE IF targetDeviceName = <<>>
        THEN [ok |-> FALSE, calls |-> NoCalls, rate |-> rateOut]
        ELSE IF useSettings /\ os.settingsOk /\ os.dmDisplayFrequency > 1
        THEN [ok |-> TRUE, calls |-> afterSettings, rate |-> Float(os.dmDisplayFrequency)]
        ELSE IF ~useDc
        THEN [ok |-> FALSE, calls |-> afterSettings, rate |-> rateOut]
        ELSE IF os.hdc /\ os.caps > 1
        THEN [ok |-> TRUE, calls |-> afterDc, rate |-> Float(os.caps)]
        ELSE [ok |-> FALSE, calls |-> afterDc, rate |-> rateOut]

\* One single-precision operation: the value n / d * 2^e (n > 0, d odd and
\* below 128) rounded to a 24-bit significand, to nearest, ties to even.
\* The result is the significand m and the exponent e of the value m * 2^e.
RECURSIVE RoundToSingle(_, _, _)
RoundToSingle(n, d, e) ==
    IF n \div d >= 2^24 THEN RoundToSingle(n, 2 * d, e + 1)
    ELSE IF n \div d < 2^23 THEN RoundToSingle(2 * n, d, e - 1)
    ELSE LET q == n \div d
             r == n % d
         IN  [m |-> IF 2 * r > d \/ (2 * r = d /\ q % 2 = 1) THEN q + 1 ELSE q,
              e |-> e]

\* The fraction a single-precision value is.
SingleValue(single) ==
    IF single.e >= 0 THEN Float(single.m * 2^single.e)
    ELSE FloatDiv(single.m, 2^(0 - single.e))

\* A slip the white-level claim must notice: the quotient and the product
\* are not rounded.
SdrNitsUnrounded(raw) == FloatDiv(FloatDiv(raw, 1000)[1] * 80, FloatDiv(raw, 1000)[2])

\* static_cast<float>(raw) / 1000.f * 80.f, line 442, in single precision:
\* 1000.f is 125 * 2^3 and 80.f is 5 * 2^4.
SdrNits(raw) ==
    IF raw = 0 THEN Float(0)
    ELSE LET level == RoundToSingle(raw, 1, 0)
             quotient == RoundToSingle(level.m, 125, level.e - 3)
             nits == RoundToSingle(quotient.m * 5, 1, quotient.e + 4)
         IN  SingleValue(nits)
WhiteLevels == {0, 1000, 1001, 1250}

\* The loops of lines 415-427 and 435-447 make one device-info call per
\* path and stop at the first that succeeds: firstOk is its position,
\* NoIndex when the OS fails them all.
\* A slip the default-value claim must notice: a failed call zeroes the
\* caller's level.
GetSdrWhiteLevelInNitZeroes(pathInfos, levelOut, api, firstOk, raw) ==
    IF "DisplayConfigGetDeviceInfo" \in api /\ firstOk # NoIndex
    THEN [ok |-> TRUE, level |-> SdrNits(raw), calls |-> firstOk]
    ELSE [ok |-> FALSE, level |-> Float(0), calls |-> 0]

\* getSdrWhiteLevelInNit, lines 431-449; raw is SDRWhiteLevel.
GetSdrWhiteLevelInNit(pathInfos, levelOut, api, firstOk, raw) ==
    IF "DisplayConfigGetDeviceInfo" \notin api
    THEN [ok |-> FALSE, level |-> levelOut, calls |-> 0]
    ELSE IF firstOk # NoIndex
    THEN [ok |-> TRUE, level |-> SdrNits(raw), calls |-> firstOk]
    ELSE [ok |-> FALSE, level |-> levelOut, calls |-> Len(pathInfos)]

\* getUserFriendlyName, lines 411-429.
MonitorNames == {<<>>, <<"D", "E", "L", "L">>}
GetUserFriendlyName(pathInfos, nameOut, api, firstOk, monitorName) ==
    IF "DisplayConfigGetDeviceInfo" \notin api
    THEN [ok |-> FALSE, name |-> nameOut, calls |-> 0]
    ELSE IF firstOk # NoIndex
    THEN [ok |-> TRUE, name |-> monitorName, calls |-> firstOk]
    ELSE [ok |-> FALSE, name |-> nameOut, calls |-> Len(pathInfos)]

\* What DisplayConfigGetDeviceInfo answers for the requests of lines 436-441
\* and 416-421, one answer per path: a failed request is left as it was
\* value-initialised.
WhiteLevelAnswers ==
    {[ok |-> FALSE, SDRWhiteLevel |-> 0]}
        \cup {[ok |-> TRUE, SDRWhiteLevel |-> raw] : raw \in WhiteLevels}
TargetNameAnswers ==
    {[ok |-> FALSE, monitorFriendlyDeviceName |-> <<>>]}
        \cup {[ok |-> TRUE, monitorFriendlyDeviceName |-> name] : name \in MonitorNames}

\* A slip the path-order claim must notice: the loop goes on after a
\* success and asks every path.
RequestsGoOnAfterSuccess(answerSet, count) == [1..count -> answerSet]

\* The answers the range-for loops of lines 415-427 and 435-447 collect over
\* count paths, one request per turn in the order of the list: a success
\* returns from the body, a failure is logged and the next path is asked.
RECURSIVE Requests(_, _)
Requests(answerSet, count) ==
    IF count = 0 THEN {<<>>}
    ELSE {<<answer>> : answer \in {a \in answerSet : a.ok}}
            \cup {<<answer>> \o rest : answer \in {a \in answerSet : ~a.ok},
                                       rest \in Requests(answerSet, count - 1)}

\* The position of the request whose ERROR_SUCCESS ended the loop (the
\* `return true` of lines 423 and 443), NoIndex when the loop ran out.
FirstOk(asked) ==
    LET succeeded == {i \in 1..Len(asked) : asked[i].ok}
    IN  IF succeeded = {} THEN NoIndex
        ELSE CHOOSE i \in succeeded : \A j \in succeeded : i <= j

\* getDpi, lines 492-511.  succeeded and dpiX are what GetDpiForMonitor
\* answers.
DpiValues == {96, 120, 144}
\* A slip the DPI claim must notice: a failed call leaves what it wrote to
\* dpiX in the output.
GetDpiKeepsAnswer(monitor, dpiOut, api, succeeded, dpiX) ==
    IF ~monitor
    THEN [ok |-> FALSE, dpi |-> USER_DEFAULT_SCREEN_DPI, calls |-> 0]
    ELSE IF "GetDpiForMonitor" \in api
    THEN [ok |-> succeeded, dpi |-> dpiX, calls |-> 1]
    ELSE [ok |-> FALSE, dpi |-> USER_DEFAULT_SCREEN_DPI, calls |-> 0]

GetDpi(monitor, dpiOut, api, succeeded, dpiX) ==
    IF ~monitor
    THEN [ok |-> FALSE, dpi |-> USER_DEFAULT_SCREEN_DPI, calls |-> 0]
    ELSE IF "GetDpiForMonitor" \in api /\ succeeded
    THEN [ok |-> TRUE, dpi |-> dpiX, calls |-> 1]
    ELSE [ok |-> FALSE, dpi |-> USER_DEFAULT_SCREEN_DPI,
          calls |-> IF "GetDpiForMonitor" \in api THEN 1 ELSE 0]

\* std::round(dpi / 96.f * 100.f), line 921.
ScalePercent(dpi) == (dpi * 100 * 2 + USER_DEFAULT_SCREEN_DPI) \div (2 * USER_DEFAULT_SCREEN_DPI)

\* Lines 817-822: the running maximum over the mode list.
RECURSIVE MaxRefreshFrom(_, _, _)
MaxRefreshFrom(modeList, modeIndex, maxRefreshRate) ==
    IF modeIndex > Len(modeList) THEN maxRefreshRate
    ELSE MaxRefreshFrom(modeList, modeIndex + 1,
                        StdMax(maxRefreshRate,
                               FloatDiv(modeList[modeIndex][1], modeList[modeIndex][2])))
\* A slip the maximum claim must notice: the maximum starts from 0.
MaxRefreshRateFromZero(modeList) == MaxRefreshFrom(modeList, 1, Float(0))

MaxRefreshRate(modeList) == MaxRefreshFrom(modeList, 1, kDefaultRefreshRate)

VARIABLES
    osVersion,        \* the host's version, as the VersionHelpers tests see it
    initialized,      \* the libraries whose singleton has been constructed
    lookedUp,         \* the symbols passed to GetProcAddress so far
    resolved          \* the non-null function pointers of the library handles

loaderVars == <<osVersion, initialized, lookedUp>>

VARIABLES
    adapterVendorId,  \* adapterDesc1.VendorId widened to std::uint64_t
    vendorsReturned,  \* what each call of vendorIdToVendor with it returned
    vendorLine        \* what line 745 appended to the "Vendor ID" line

vendorVars == <<adapterVendorId, vendorsReturned, vendorLine>>


\* ------------------------------------------------- driver info resolver
VARIABLES
    deviceName,       \* getDriverInfo's deviceName argument
    infoOut,          \* the caller's DriverInfo
    infoBefore,       \* infoOut as it was when the call began
    drvPc,            \* getDriverInfo's position
    drvResult,        \* "none", "true", "false", or "exception" (escaped)
    devInfoList,      \* "none", "open" or "destroyed": the HDEVINFO
    destroyCalls,     \* calls of SetupDiDestroyDeviceInfoList
    index,            \* the device index of the scan
    description,      \* what the scan last met: "none", "end" of the list, or a
                      \* device "unreadable", "other" or a "match"
    found,
    registryKeyName,
    providerName,
    driverVersion,
    driverDate,
    rawVersion,       \* the version string as read from the device tree
    readFailed,       \* the property reads of the matched device that failed
    regTrace          \* what the registry answered in the AMD branch

drvVars == <<deviceName, description, infoOut, infoBefore, drvPc, drvResult, devInfoList,
             destroyCalls, index, found, registryKeyName, providerName, driverVersion,
             driverDate, rawVersion, readFailed, regTrace>>

VARIABLES
    outPc,               \* wmain's position in the body of the output loop
    outputDeviceName,    \* outputDesc.DeviceName
    monitor,             \* outputDesc.Monitor is not null
    modesOutcome,        \* how the display-mode requests of lines 809-816 went
    modeList,            \* the modes of the second GetDisplayModeList1
    maxRefreshRate,
    pathInfos,           \* the caller's path_info_t, getPathInfo's pathInfoOut
    tries,               \* turns of getPathInfo's do-while made so far
    erased,              \* elements erased by line 407
    sdrWhiteLevel,
    refreshRate,
    userFriendlyName,
    dpi,
    returned,            \* per resolver: "none", "true" or "false"
    calls,               \* OS calls made by the resolvers of this output
    answered,            \* what the OS answered to the resolvers' calls
    printed              \* per attribute: <<>> or <<the value written to wcout>>

outVars == <<outPc, outputDeviceName, monitor, modesOutcome, modeList, maxRefreshRate,
             pathInfos, tries, erased, sdrWhiteLevel, refreshRate, userFriendlyName, dpi,
             returned, calls, answered, printed>>

VARIABLES
    mainPc,              \* wmain's position
    available,           \* the libraries whose handle isAvailable()
    exitCode,            \* "none", "EXIT_SUCCESS", "EXIT_FAILURE", or "abnormal"
    endedBy,             \* what ended the run
    dpiAwarenessCalls,   \* calls of SetProcessDpiAwarenessContext
    dpiAwarenessAnswer,  \* what the call answered, while lines 701-709 are in scope
    adapterIndex,
    adapter,             \* the ComPtr<IDXGIAdapter1>: "null" or "held"
    adapterEnum,         \* what the last EnumAdapters1 answered
    adapterVisits,       \* the indices passed to EnumAdapters1, in call order
    outputIndex,
    output,              \* the ComPtr<IDXGIOutput>: "null" or "held"
    outputEnum,          \* what the last EnumOutputs answered
    outputVisits,        \* the indices passed to EnumOutputs for this adapter
    report               \* what wmain wrote to wcout and wcerr, in order

mainVars == <<mainPc, available, exitCode, endedBy, dpiAwarenessCalls, dpiAwarenessAnswer,
              adapterIndex, adapter, adapterEnum, adapterVisits, outputIndex, output,
              outputEnum, outputVisits, report>>

vars == <<loaderVars, vendorVars, resolved, drvVars, outVars, mainVars>>

\* What a step of one component leaves alone.
OutsideDriver == UNCHANGED <<loaderVars, vendorVars, outVars, mainVars>>
OutsideOutput == UNCHANGED <<loaderVars, vendorVars, resolved, drvVars, mainVars>>
OutsideMain == UNCHANGED <<loaderVars, vendorVars, resolved, drvVars, outVars>>
OutsideLoader == UNCHANGED <<vendorVars, drvVars, outVars>>
OutsideVendor == UNCHANGED <<loaderVars, resolved, drvVars, outVars, mainVars>>

\* No adapter description is being printed.
VendorIdle ==
    /\ adapterVendorId = U64(0, 0)
    /\ vendorsReturned = <<>>
    /\ vendorLine = "none"

\* The library singletons once all five constructors have run, on a host
\* of version os where the libraries of loadable load and GetProcAddress
\* finds the symbols of exported.
Constructed(loadable, os, exported) ==
    /\ osVersion = os
    /\ initialized = Libs
    /\ available = loadable
    /\ lookedUp = LookedUp(loadable, os)
    /\ resolved = ResolvedBy(loadable, os, exported)

\* wmain is not running.
MainIdle ==
    /\ mainPc = "idle"
    /\ exitCode = "none"
    /\ endedBy = "none"
    /\ dpiAwarenessCalls = 0
    /\ dpiAwarenessAnswer = "none"
    /\ adapterIndex = 0
    /\ adapter = "null"
    /\ adapterEnum = "none"
    /\ adapterVisits = <<>>
    /\ outputIndex = 0
    /\ output = "null"
    /\ outputEnum = "none"
    /\ outputVisits = <<>>
    /\ report = <<>>

VendorMarkers == {"NVIDIA", "Advanced Micro Devices", "Intel"}

\* providerName.find(marker) != npos
Contains(provider, marker) == marker \in provider

SetupApiNeeded == {"SetupDiGetClassDevsW", "SetupDiDestroyDeviceInfoList",
                   "SetupDiEnumDeviceInfo", "SetupDiGetDevicePropertyW"}

\* Raw version strings of the device tree: every string of digits and dots
\* up to MaxVerLen, and the versions the source and the spec quote.
V_9_18_13_4788 == <<"9", ".", "1", "8", ".", "1", "3", ".", "4", "7", "8", "8">>
V_27_20_100_8935 == <<"2", "7", ".", "2", "0", ".", "1", "0", "0", ".", "8", "9", "3", "5">>
V_31_0_15_3623 == <<"3", "1", ".", "0", ".", "1", "5", ".", "3", "6", "2", "3">>
KnownVersions == {V_9_18_13_4788, V_27_20_100_8935, V_31_0_15_3623}
Versions == StringsUpTo({"1", "."}, MaxVerLen) \cup KnownVersions

\* Decoded driver dates (FileTimeToSystemTime).
SystemTimes == {[wYear |-> 2024, wMonth |-> 1, wDay |-> 5]}

DateString(st) ==
    ToString(st.wYear) \o "-" \o ToString(st.wMonth) \o "-" \o ToString(st.wDay)

RegistryKeyNames == {"", "{4d36e968}\\0000"}

\* The caller's DriverInfo: the empty one wmain passes (line 769), and one
\* that already holds values, since infoOut is a reference to any DriverInfo.
DriverInfos == {[version |-> <<>>, date |-> ""],
                [version |-> <<"o", "l", "d">>, date |-> "2000-1-1"]}

\* --- NVIDIA: lines 604-616
RECURSIVE EraseDots(_)
EraseDots(rightPart) ==
    LET dot == IndexOf(rightPart, ".", 1)
    IN  IF dot = NoIndex THEN rightPart ELSE EraseDots(EraseAt(rightPart, dot))

\* std::wstring::insert(pos, text), pos 0-based; pos > size() throws
\* std::out_of_range.
InsertThrows(s, pos) == pos > Len(s)
InsertAt(s, pos, text) == SubSeq(s, 1, pos) \o text \o SubstrFrom(s, pos)

\* Lines 608-615: the NVIDIA rewrite; threw when insert(3, ".") throws.
NvidiaRewrite(version) ==
    IF Len(version) >= 6
    THEN LET rightPart == EraseDots(SubstrFrom(version, Len(version) - 6))
         IN  IF InsertThrows(rightPart, 3)
             THEN [threw |-> TRUE, version |-> version]
             ELSE [threw |-> FALSE, version |-> InsertAt(rightPart, 3, <<".">>)]
    ELSE [threw |-> FALSE, version |-> version]

\* --- AMD: lines 617-650.  A registry call is skipped, throws (a
\* std::exception), or answers.
Skipped(val) == [st |-> "skip", val |-> val]
Threw(val) == [st |-> "throw", val |-> val]
Ok(val) == [st |-> "ok", val |-> val]
BoolCalls == {Skipped(FALSE), Threw(FALSE), Ok(FALSE), Ok(TRUE)}
CatalystValues == {<<>>, <<"1", "4", ".", "1">>}
EditionValues == {<<>>, <<"C", "r", "i", "m", "s", "o", "n">>}
SoftwareVersionValues == {<<>>, <<"1", "5", ".", "1", "2">>}
StringCalls(values) == {Skipped(<<>>), Threw(<<>>)} \cup {Ok(v) : v \in values}

NoRegTrace ==
    [open |-> "skip", hasCat |-> Skipped(FALSE), cat |-> Skipped(<<>>),
     hasEd |-> Skipped(FALSE), ed |-> Skipped(<<>>),
     hasVer |-> Skipped(FALSE), ver |-> Skipped(<<>>)]

Made(call) == call.st # "skip"
Answered(call) == call.st = "ok"
Yes(call) == call.st = "ok" /\ call.val = TRUE
NonEmpty(call) == call.st = "ok" /\ call.val # <<>>

\* The calls of one pass through lines 624-642 are made in order, each only
\* if the code reaches it, and none after a throw.
CatalystThrew(reg) == reg.hasCat.st = "throw" \/ reg.cat.st = "throw"
WellFormedTrace(reg) ==
    /\ Made(reg.hasCat) <=> reg.open = "ok"
    /\ Made(reg.cat) <=> Yes(reg.hasCat)
    /\ Made(reg.hasEd) <=> (reg.open = "ok" /\ ~CatalystThrew(reg))
    /\ Made(reg.ed) <=> Yes(reg.hasEd)
    /\ Made(reg.hasVer) <=> NonEmpty(reg.ed)
    /\ Made(reg.ver) <=> Yes(reg.hasVer)

RegTraces ==
    {reg \in [open : {"throw", "null", "ok"},
              hasCat : BoolCalls, cat : StringCalls(CatalystValues),
              hasEd : BoolCalls, ed : StringCalls(EditionValues),
              hasVer : BoolCalls, ver : StringCalls(SoftwareVersionValues)] :
        WellFormedTrace(reg)}

CatalystPrefix == <<"C", "a", "t", "a", "l", "y", "s", "t", " ">>

\* A slip the AMD claims must notice: the Catalyst value is applied last and
\* overrides the Radeon pair.
AmdRewriteCatalystLast(version, reg) ==
    IF reg.open # "ok" THEN version
    ELSE LET afterRadeon == IF NonEmpty(reg.ver)
                            THEN reg.ed.val \o <<" ">> \o reg.ver.val
                            ELSE version
         IN  IF NonEmpty(reg.cat)
             THEN CatalystPrefix \o reg.cat.val
             ELSE afterRadeon

\* Lines 624-642: the Catalyst value, then the Radeon pair over it; what was
\* assigned before a throw stays assigned.
AmdRewrite(version, reg) ==
    IF reg.open # "ok" THEN version
    ELSE LET afterCatalyst == IF NonEmpty(reg.cat)
                              THEN CatalystPrefix \o reg.cat.val
                              ELSE version
         IN  IF NonEmpty(reg.ver)
             THEN reg.ed.val \o <<" ">> \o reg.ver.val
             ELSE afterCatalyst

\* --- Intel: lines 651-662
IntelRewrite(version) ==
    LET first == IndexOf(version, ".", 1)
    IN  IF first = NoIndex THEN version
        ELSE LET second == IndexOf(version, ".", first + 1)
             IN  IF second = NoIndex THEN version
                 ELSE SubstrFrom(version, second - 1)

\* --- getDriverInfo, lines 521-666
\* Every return after line 529 runs ~DevInfoListDeleter (lines 535-539).
\* A slip the handle claim must notice: the list is destroyed only when the
\* call succeeds.
DrvReturnKeepsList(result) ==
    /\ drvPc' = "done"
    /\ drvResult' = result
    /\ devInfoList' = IF devInfoList = "open" /\ result = "true" THEN "destroyed"
                      ELSE devInfoList
    /\ destroyCalls' = IF devInfoList = "open" /\ result = "true" THEN destroyCalls + 1
                       ELSE destroyCalls

\* `return result`: the destructor of devInfoListDeleter (lines 535-539)
\* runs if the deleter was constructed.
DrvReturn(result) ==
    /\ drvPc' = "done"
    /\ drvResult' = result
    /\ devInfoList' = IF devInfoList = "open" THEN "destroyed" ELSE devInfoList
    /\ destroyCalls' = IF devInfoList = "open" THEN destroyCalls + 1 ELSE destroyCalls

\* An exception nobody catches leaves getDriverInfo and ends the process in
\* std::terminate; whether the stack is unwound first (and the deleter run)
\* is implementation-defined.
DrvThrow ==
    /\ drvPc' = "done"
    /\ drvResult' = "exception"
    /\ \E unwound \in BOOLEAN :
          /\ devInfoList' = IF unwound /\ devInfoList = "open" THEN "destroyed" ELSE devInfoList
          /\ destroyCalls' = IF unwound /\ devInfoList = "open" THEN destroyCalls + 1
                             ELSE destroyCalls

\* Lines 523-532: the argument and entry-point checks, SetupDiGetClassDevsW.
DrvEntry ==
    /\ drvPc = "entry"
    /\ OutsideDriver
    /\ UNCHANGED <<resolved, deviceName, description, infoOut, infoBefore, index, found,
                   registryKeyName, providerName, driverVersion, driverDate, rawVersion,
                   readFailed, regTrace>>
    /\ IF deviceName = "" \/ ~(SetupApiNeeded \subseteq resolved)
       THEN DrvReturn("false")
       ELSE \E valid \in BOOLEAN :
               IF valid
               THEN /\ drvPc' = "scan"
                    /\ devInfoList' = "open"
                    /\ UNCHANGED <<drvResult, destroyCalls>>
               ELSE DrvReturn("false")

\* A slip the scan claim must notice: a device whose description cannot be
\* read ends the call instead of being passed over.
DrvScanStopsAtUnreadable ==
    /\ drvPc = "scan"
    /\ OutsideDriver
    /\ UNCHANGED <<resolved, deviceName, infoOut, infoBefore, providerName, driverVersion,
                   driverDate, rawVersion, regTrace>>
    /\ \/ /\ description' = "end"
          /\ UNCHANGED <<index, found, registryKeyName, readFailed>>
          /\ DrvReturn("false")
       \/ /\ index < MaxDevices
          /\ description' = "unreadable"
          /\ UNCHANGED <<index, found, registryKeyName, readFailed>>
          /\ DrvReturn("false")
       \/ /\ index < MaxDevices
          /\ description' = "other"
          /\ index' = index + 1
          /\ UNCHANGED <<found, registryKeyName, readFailed, drvPc, drvResult,
                         devInfoList, destroyCalls>>
       \/ /\ index < MaxDevices
          /\ description' = "match"
          /\ found' = TRUE
          /\ \E read \in BOOLEAN, key \in RegistryKeyNames :
                IF read
                THEN /\ registryKeyName' = key
                     /\ readFailed' = readFailed
                ELSE /\ registryKeyName' = registryKeyName
                     /\ readFailed' = readFailed \cup {"Driver"}
          /\ drvPc' = "provider"
          /\ UNCHANGED <<index, drvResult, devInfoList, destroyCalls>>

\* Lines 563-583: one turn of the device scan.  SetupDiEnumDeviceInfo ends
\* the list, or yields a device whose description cannot be read, does not
\* contain deviceName, or contains it; the last also reads the driver key.
DrvScan ==
    /\ drvPc = "scan"
    /\ OutsideDriver
    /\ UNCHANGED <<resolved, deviceName, infoOut, infoBefore, providerName, driverVersion,
                   driverDate, rawVersion, regTrace>>
    /\ \/ /\ description' = "end"
          /\ UNCHANGED <<index, found, registryKeyName, readFailed>>
          /\ DrvReturn("false")
       \/ /\ index < MaxDevices
          /\ description' \in {"unreadable", "other"}
          /\ index' = index + 1
          /\ UNCHANGED <<found, registryKeyName, readFailed, drvPc, drvResult,
                         devInfoList, destroyCalls>>
       \/ /\ index < MaxDevices
          /\ description' = "match"
          /\ found' = TRUE
          /\ \E read \in BOOLEAN, key \in RegistryKeyNames :
                IF read
                THEN /\ registryKeyName' = key
                     /\ readFailed' = readFailed
                ELSE /\ registryKeyName' = registryKeyName
                     /\ readFailed' = readFailed \cup {"Driver"}
          /\ drvPc' = "provider"
          /\ UNCHANGED <<index, drvResult, devInfoList, destroyCalls>>

\* Lines 584-589: DEVPKEY_Device_DriverProvider.
DrvReadProvider ==
    /\ drvPc = "provider"
    /\ OutsideDriver
    /\ UNCHANGED <<resolved, deviceName, description, infoOut, infoBefore, index, found,
                   registryKeyName, driverVersion, driverDate, rawVersion, regTrace>>
    /\ \/ /\ readFailed' = readFailed \cup {"DriverProvider"}
          /\ providerName' = providerName
          /\ DrvReturn("false")
       \/ /\ providerName' \in SUBSET VendorMarkers
          /\ drvPc' = "version"
          /\ UNCHANGED <<readFailed, drvResult, devInfoList, destroyCalls>>

\* Lines 590-595: DEVPKEY_Device_DriverVersion.
DrvReadVersion ==
    /\ drvPc = "version"
    /\ OutsideDriver
    /\ UNCHANGED <<resolved, deviceName, description, infoOut, infoBefore, index, found,
                   registryKeyName, providerName, driverDate, regTrace>>
    /\ \/ /\ readFailed' = readFailed \cup {"DriverVersion"}
          /\ UNCHANGED <<driverVersion, rawVersion>>
          /\ DrvReturn("false")
       \/ /\ \E value \in Versions :
                /\ driverVersion' = ShrinkToFit(Buffer(value))
                /\ rawVersion' = value
          /\ drvPc' = "date"
          /\ UNCHANGED <<readFailed, drvResult, devInfoList, destroyCalls>>

\* A slip the required-read claim must notice: the failed date read does not
\* return.
DrvReadDateGoesOn ==
    /\ drvPc = "date"
    /\ OutsideDriver
    /\ UNCHANGED <<resolved, deviceName, description, infoOut, infoBefore, index, found,
                   registryKeyName, providerName, driverVersion, rawVersion, regTrace,
                   drvResult, devInfoList, destroyCalls>>
    /\ drvPc' = "nvidia"
    /\ \/ /\ readFailed' = readFailed \cup {"DriverDate"}
          /\ driverDate' = driverDate
       \/ /\ \E systemTime \in SystemTimes : driverDate' = DateString(systemTime)
          /\ readFailed' = readFailed

\* Lines 596-602: DEVPKEY_Device_DriverDate.
DrvReadDate ==
    /\ drvPc = "date"
    /\ OutsideDriver
    /\ UNCHANGED <<resolved, deviceName, description, infoOut, infoBefore, index, found,
                   registryKeyName, providerName, driverVersion, rawVersion, regTrace>>
    /\ \/ /\ readFailed' = readFailed \cup {"DriverDate"}
          /\ driverDate' = driverDate
          /\ DrvReturn("false")
       \/ /\ \E systemTime \in SystemTimes : driverDate' = DateString(systemTime)
          /\ drvPc' = "nvidia"
          /\ UNCHANGED <<readFailed, drvResult, devInfoList, destroyCalls>>

\* Lines 604-616.
DrvNvidia ==
    /\ drvPc = "nvidia"
    /\ OutsideDriver
    /\ UNCHANGED <<resolved, deviceName, description, infoOut, infoBefore, index, found,
                   registryKeyName, providerName, driverDate, rawVersion, readFailed,
                   regTrace>>
    /\ IF Contains(providerName, "NVIDIA")
       THEN LET rewritten == NvidiaRewrite(driverVersion)
            IN  IF rewritten.threw
                THEN /\ driverVersion' = driverVersion
                     /\ DrvThrow
                ELSE /\ driverVersion' = rewritten.version
                     /\ drvPc' = "amd"
                     /\ UNCHANGED <<drvResult, devInfoList, destroyCalls>>
       ELSE /\ drvPc' = "amd"
            /\ UNCHANGED <<driverVersion, drvResult, devInfoList, destroyCalls>>

\* Lines 617-650.
DrvAmd ==
    /\ drvPc = "amd"
    /\ OutsideDriver
    /\ UNCHANGED <<resolved, deviceName, description, infoOut, infoBefore, index, found,
                   registryKeyName, providerName, driverDate, rawVersion, readFailed,
                   drvResult, devInfoList, destroyCalls>>
    /\ drvPc' = "intel"
    /\ IF Contains(providerName, "Advanced Micro Devices") /\ registryKeyName # ""
       THEN \E reg \in RegTraces :
               /\ regTrace' = reg
               /\ driverVersion' = AmdRewrite(driverVersion, reg)
       ELSE UNCHANGED <<regTrace, driverVersion>>

\* Lines 651-662.
DrvIntel ==
    /\ drvPc = "intel"
    /\ OutsideDriver
    /\ UNCHANGED <<resolved, deviceName, description, infoOut, infoBefore, index, found,
                   registryKeyName, providerName, driverDate, rawVersion, readFailed,
                   regTrace, drvResult, devInfoList, destroyCalls>>
    /\ drvPc' = "assign"
    /\ driverVersion' = IF Contains(providerName, "Intel")
                        THEN IntelRewrite(driverVersion)
                        ELSE driverVersion

\* Lines 663-665.
DrvAssign ==
    /\ drvPc = "assign"
    /\ OutsideDriver
    /\ UNCHANGED <<resolved, deviceName, description, infoBefore, index, found, registryKeyName,
                   providerName, driverVersion, driverDate, rawVersion, readFailed, regTrace>>
    /\ infoOut' = [version |-> driverVersion, date |-> driverDate]
    /\ DrvReturn("true")

DrvNext ==
    \/ DrvEntry
    \/ DrvScan
    \/ DrvReadProvider
    \/ DrvReadVersion
    \/ DrvReadDate
    \/ DrvNvidia
    \/ DrvAmd
    \/ DrvIntel
    \/ DrvAssign


\* ------------------------------------- one output: wmain, lines 807-924
MaxModes == 2
MaxPaths == 2
MaxTries == 2

\* A local that is not in scope.
NotDeclared == <<>>

ModeRates == {<<0, 0>>, <<30, 1>>, <<60, 1>>, <<144, 1>>, <<60000, 1001>>, <<75, 0>>}
ModeLists == StringsUpTo(ModeRates, MaxModes)

PathsAt(id) ==
    {[id |-> id, source |-> name, Numerator |-> rate[1], Denominator |-> rate[2]] :
        name \in SourceNames \cup {NoAnswer}, rate \in PathRates}

\* The active paths the OS may hold: the n-th has id n.
RECURSIVE PathListsOfLen(_)
PathListsOfLen(n) ==
    IF n = 0 THEN {<<>>}
    ELSE {Append(paths, path) : paths \in PathListsOfLen(n - 1), path \in PathsAt(n)}
PathLists == UNION {PathListsOfLen(n) : n \in 0..MaxPaths}

\* std::vector::resize(count) on an empty vector.
ZeroPaths(count) == [i \in 1..count |-> ZeroPath]

NothingReturned ==
    [getPathInfo |-> "none", getSdrWhiteLevelInNit |-> "none", getRefreshRate |-> "none",
     getUserFriendlyName |-> "none", getDpi |-> "none"]
NothingCalled ==
    [settings |-> 0, create |-> 0, caps |-> 0, delete |-> 0, whiteLevel |-> 0,
     targetName |-> 0, dpiForMonitor |-> 0]
\* No entry point has been called: whiteLevel and devMode are zero-filled
\* (lines 436 and 463), and dpiX starts at 0 (line 499).
NoAnswers ==
    [sizes |-> "none", result |-> "none", whiteLevels |-> <<>>, targetNames |-> <<>>,
     SDRWhiteLevel |-> 0, settings |-> "none",
     dmDisplayFrequency |-> 0, hdc |-> "none", caps |-> 0, hr |-> "none", dpiX |-> 0]
NothingPrinted ==
    [maxRefreshRate |-> <<>>, sdrWhiteLevel |-> <<>>, refreshRate |-> <<>>,
     userFriendlyName |-> <<>>, dpi |-> <<>>]

Bool(ok) == IF ok THEN "true" ELSE "false"

\* Lines 807-826: the display-mode requests and the maximum refresh rate.
OutModes ==
    /\ outPc = "modes"
    /\ OutsideOutput
    /\ outPc' = "modesEnd"
    /\ UNCHANGED <<outputDeviceName, monitor, answered, pathInfos, tries, erased, sdrWhiteLevel,
                   refreshRate, userFriendlyName, dpi, returned, calls>>
    /\ \/ /\ \E failure \in {"noInterface", "countFailed", "noModes", "listFailed"} :
                modesOutcome' = failure
          /\ UNCHANGED <<modeList, maxRefreshRate, printed>>
       \/ /\ \E modes \in ModeLists :
                /\ modeList' = modes
                /\ maxRefreshRate' = MaxRefreshRate(modes)
                /\ printed' = [printed EXCEPT !.maxRefreshRate = <<MaxRefreshRate(modes)>>]
          /\ modesOutcome' = "listed"

\* Line 827: modeList and maxRefreshRate go out of scope.
OutModesEnd ==
    /\ outPc = "modesEnd"
    /\ OutsideOutput
    /\ outPc' = "pathInfo"
    /\ modesOutcome' = "none"
    /\ modeList' = <<>>
    /\ maxRefreshRate' = NotDeclared
    /\ UNCHANGED <<outputDeviceName, monitor, answered, pathInfos, tries, erased,
                   sdrWhiteLevel, refreshRate, userFriendlyName, dpi, returned, calls,
                   printed>>

\* getPathInfo returns false to line 903: the block of lines 904-915 is
\* skipped.
PathInfoFails(paths) ==
    /\ pathInfos' = paths
    /\ returned' = [returned EXCEPT !.getPathInfo = "false"]
    /\ outPc' = "dpi"

\* Lines 902-903 and 366-376: the call of getPathInfo up to its loop.
PathInfoEntry ==
    /\ outPc = "pathInfo"
    /\ OutsideOutput
    /\ UNCHANGED <<outputDeviceName, monitor, answered, modesOutcome, modeList,
                   maxRefreshRate, tries, erased, sdrWhiteLevel, refreshRate,
                   userFriendlyName, dpi, calls, printed>>
    /\ IF \/ ~({"GetDisplayConfigBufferSizes", "DisplayConfigGetDeviceInfo",
                "QueryDisplayConfig"} \subseteq resolved)
          \/ outputDeviceName = <<>>
       THEN PathInfoFails(pathInfos)
       ELSE /\ pathInfos' = <<>>
            /\ outPc' = "query"
            /\ UNCHANGED returned

\* A slip the retry claim must notice: the loop goes on after every fetch
\* that did not succeed (while (result != ERROR_SUCCESS)).
PathInfoQueryRetriesAnyFailure ==
    /\ outPc = "query"
    /\ OutsideOutput
    /\ UNCHANGED <<outputDeviceName, monitor, modesOutcome, modeList, maxRefreshRate,
                   erased, sdrWhiteLevel, refreshRate, userFriendlyName, dpi, calls, printed>>
    /\ \/ /\ answered' = [answered EXCEPT !.sizes = "failed"]
          /\ PathInfoFails(<<>>)
          /\ tries' = 0
       \/ /\ tries + 1 < MaxTries
          /\ \E result \in {"other", "ERROR_INSUFFICIENT_BUFFER"} :
                answered' = [answered EXCEPT !.sizes = "ERROR_SUCCESS", !.result = result]
          /\ \E pathInfoCount \in 0..(MaxPaths - 1) :
                pathInfos' = ZeroPaths(pathInfoCount)
          /\ tries' = tries + 1
          /\ UNCHANGED <<outPc, returned>>
       \/ /\ answered' = [answered EXCEPT !.sizes = "ERROR_SUCCESS",
                                          !.result = "ERROR_SUCCESS"]
          /\ \E pathInfoCount \in 0..MaxPaths, active \in PathLists :
                /\ Len(active) <= pathInfoCount
                /\ pathInfos' = active \o ZeroPaths(pathInfoCount - Len(active))
          /\ tries' = 0
          /\ outPc' = "filter"
          /\ UNCHANGED returned

\* Lines 377-392: one turn of the do-while, and the test that follows the
\* loop.  GetDisplayConfigBufferSizes fails or reports a path count;
\* QueryDisplayConfig finds more active paths than the buffer holds
\* (ERROR_INSUFFICIENT_BUFFER), fails otherwise, or fills the buffer's head.
PathInfoQuery ==
    /\ outPc = "query"
    /\ OutsideOutput
    /\ UNCHANGED <<outputDeviceName, monitor, modesOutcome, modeList, maxRefreshRate,
                   erased, sdrWhiteLevel, refreshRate, userFriendlyName, dpi, calls, printed>>
    /\ \/ /\ answered' = [answered EXCEPT !.sizes = "failed"]
          /\ PathInfoFails(<<>>)
          /\ tries' = 0
       \/ /\ answered' = [answered EXCEPT !.sizes = "ERROR_SUCCESS", !.result = "other"]
          /\ PathInfoFails(<<>>)
          /\ tries' = 0
       \/ /\ tries + 1 < MaxTries
          /\ answered' = [answered EXCEPT !.sizes = "ERROR_SUCCESS",
                                          !.result = "ERROR_INSUFFICIENT_BUFFER"]
          /\ \E pathInfoCount \in 0..(MaxPaths - 1) :
                pathInfos' = ZeroPaths(pathInfoCount)
          /\ tries' = tries + 1
          /\ UNCHANGED <<outPc, returned>>
       \/ /\ answered' = [answered EXCEPT !.sizes = "ERROR_SUCCESS",
                                          !.result = "ERROR_SUCCESS"]
          /\ \E pathInfoCount \in 0..MaxPaths, active \in PathLists :
                /\ Len(active) <= pathInfoCount
                /\ pathInfos' = active \o ZeroPaths(pathInfoCount - Len(active))
          /\ tries' = 0
          /\ outPc' = "filter"
          /\ UNCHANGED returned

\* Lines 393-408; result, the local of getPathInfo, is gone.
PathInfoFilter ==
    /\ outPc = "filter"
    /\ OutsideOutput
    /\ answered' = [answered EXCEPT !.sizes = "none", !.result = "none"]
    /\ UNCHANGED <<outputDeviceName, monitor, modesOutcome, modeList,
                   maxRefreshRate, tries, sdrWhiteLevel, refreshRate, userFriendlyName, dpi,
                   calls, printed>>
    /\ LET kept == RemoveIfErase(outputDeviceName, pathInfos)
       IN  /\ pathInfos' = kept
           /\ erased' = Len(pathInfos) - Len(kept)
           /\ returned' = [returned EXCEPT !.getPathInfo = Bool(kept # <<>>)]
           /\ outPc' = IF kept # <<>> THEN "sdr" ELSE "dpi"

\* Lines 904-907.
OutSdr ==
    /\ outPc = "sdr"
    /\ OutsideOutput
    /\ outPc' = "refresh"
    /\ erased' = 0
    /\ UNCHANGED <<outputDeviceName, monitor, modesOutcome, modeList, maxRefreshRate,
                   pathInfos, tries, refreshRate, userFriendlyName, dpi>>
    /\ \E asked \in Requests(WhiteLevelAnswers,
                             IF "DisplayConfigGetDeviceInfo" \in resolved
                             THEN Len(pathInfos) ELSE 0) :
          LET firstOk == FirstOk(asked)
              raw == IF firstOk = NoIndex THEN 0 ELSE asked[firstOk].SDRWhiteLevel
              r == GetSdrWhiteLevelInNit(pathInfos, kDefaultSDRWhiteLevel, resolved,
                                         firstOk, raw)
          IN  /\ sdrWhiteLevel' = r.level
              /\ answered' =
                    [answered EXCEPT
                       !.whiteLevels = asked,
                       !.SDRWhiteLevel = IF r.ok THEN raw ELSE @]
              /\ returned' = [returned EXCEPT !.getSdrWhiteLevelInNit = Bool(r.ok)]
              /\ calls' = [calls EXCEPT !.whiteLevel = r.calls]
              /\ printed' = [printed EXCEPT
                               !.sdrWhiteLevel = IF r.ok THEN <<r.level>> ELSE <<>>]

\* Lines 908-911.
OutRefresh ==
    /\ outPc = "refresh"
    /\ OutsideOutput
    /\ outPc' = "name"
    /\ UNCHANGED <<outputDeviceName, monitor, modesOutcome, modeList, maxRefreshRate,
                   pathInfos, tries, erased, sdrWhiteLevel, userFriendlyName, dpi>>
    /\ \E os \in RefreshAnswers :
          LET r == GetRefreshRate(outputDeviceName, pathInfos, kDefaultRefreshRate,
                                  resolved, os)
              asked == r.calls.settings = 1
              created == r.calls.create = 1
          IN  /\ refreshRate' = r.rate
              /\ answered' =
                    [answered EXCEPT
                       !.whiteLevels = <<>>,
                       !.settings = IF ~asked THEN "none"
                                    ELSE IF os.settingsOk THEN "ok" ELSE "failed",
                       !.dmDisplayFrequency = IF asked /\ os.settingsOk
                                              THEN os.dmDisplayFrequency ELSE 0,
                       !.hdc = IF ~created THEN "none"
                               ELSE IF os.hdc THEN "held" ELSE "null",
                       !.caps = IF r.calls.caps = 1 THEN os.caps ELSE 0]
              /\ returned' = [returned EXCEPT !.getRefreshRate = Bool(r.ok)]
              /\ calls' = [calls EXCEPT !.settings = r.calls.settings,
                                        !.create = r.calls.create,
                                        !.caps = r.calls.caps,
                                        !.delete = r.calls.delete]
              /\ printed' = [printed EXCEPT
                               !.refreshRate = IF r.ok THEN <<r.rate>> ELSE <<>>]

\* Lines 912-915; devMode and hdc, the locals of getRefreshRate, are gone.
OutName ==
    /\ outPc = "name"
    /\ OutsideOutput
    /\ outPc' = "pathEnd"
    /\ UNCHANGED <<outputDeviceName, monitor, modesOutcome, modeList, maxRefreshRate,
                   pathInfos, tries, erased, sdrWhiteLevel, refreshRate, dpi>>
    /\ \E asked \in Requests(TargetNameAnswers,
                             IF "DisplayConfigGetDeviceInfo" \in resolved
                             THEN Len(pathInfos) ELSE 0) :
          LET firstOk == FirstOk(asked)
              monitorName == IF firstOk = NoIndex THEN <<>>
                             ELSE asked[firstOk].monitorFriendlyDeviceName
              r == GetUserFriendlyName(pathInfos, <<>>, resolved, firstOk, monitorName)
          IN  /\ userFriendlyName' = r.name
              /\ answered' =
                    [answered EXCEPT
                       !.targetNames = asked,
                       !.settings = "none", !.dmDisplayFrequency = 0,
                       !.hdc = "none", !.caps = 0]
              /\ returned' = [returned EXCEPT !.getUserFriendlyName = Bool(r.ok)]
              /\ calls' = [calls EXCEPT !.targetName = r.calls]
              /\ printed' = [printed EXCEPT
                               !.userFriendlyName = IF r.ok THEN <<r.name>> ELSE <<>>]

\* Lines 916-917: the locals of the block go out of scope.
OutPathEnd ==
    /\ outPc = "pathEnd"
    /\ OutsideOutput
    /\ outPc' = "dpi"
    /\ pathInfos' = <<>>
    /\ sdrWhiteLevel' = NotDeclared
    /\ refreshRate' = NotDeclared
    /\ userFriendlyName' = <<>>
    /\ answered' = [answered EXCEPT !.targetNames = <<>>]
    /\ UNCHANGED <<outputDeviceName, monitor, modesOutcome, modeList,
                   maxRefreshRate, tries, erased, dpi, returned, calls, printed>>

\* Lines 918-924.
OutDpi ==
    /\ outPc = "dpi"
    /\ OutsideOutput
    /\ outPc' = "done"
    /\ erased' = 0
    /\ UNCHANGED <<outputDeviceName, monitor, modesOutcome, modeList, maxRefreshRate,
                   pathInfos, tries, sdrWhiteLevel, refreshRate, userFriendlyName>>
    /\ \E succeeded \in BOOLEAN, dpiX \in DpiValues :
          LET r == GetDpi(monitor, USER_DEFAULT_SCREEN_DPI, resolved, succeeded, dpiX)
          IN  /\ dpi' = r.dpi
              /\ answered' =
                    [answered EXCEPT
                       !.sizes = "none",
                       !.result = "none",
                       !.hr = IF r.calls = 0 THEN "none"
                              ELSE IF succeeded THEN "S_OK" ELSE "E_FAIL",
                       !.dpiX = IF r.calls = 1 /\ succeeded THEN dpiX ELSE 0]
              /\ returned' = [returned EXCEPT !.getDpi = Bool(r.ok)]
              /\ calls' = [calls EXCEPT !.dpiForMonitor = r.calls]
              /\ printed' = [printed EXCEPT
                               !.dpi = IF r.ok THEN <<r.dpi, ScalePercent(r.dpi)>> ELSE <<>>]

OutIdle ==
    /\ outPc = "idle"
    /\ outputDeviceName = <<>>
    /\ monitor = FALSE
    /\ modesOutcome = "none"
    /\ modeList = <<>>
    /\ maxRefreshRate = NotDeclared
    /\ pathInfos = <<>>
    /\ tries = 0
    /\ erased = 0
    /\ sdrWhiteLevel = NotDeclared
    /\ refreshRate = NotDeclared
    /\ userFriendlyName = <<>>
    /\ dpi = USER_DEFAULT_SCREEN_DPI
    /\ returned = NothingReturned
    /\ calls = NothingCalled
    /\ answered = NoAnswers
    /\ printed = NothingPrinted

DrvIdle ==
    /\ deviceName = ""
    /\ infoOut = [version |-> <<>>, date |-> ""]
    /\ infoBefore = infoOut
    /\ drvPc = "idle"
    /\ drvResult = "none"
    /\ devInfoList = "none"
    /\ destroyCalls = 0
    /\ index = 0
    /\ description = "none"
    /\ found = FALSE
    /\ registryKeyName = ""
    /\ providerName = {}
    /\ driverVersion = <<>>
    /\ driverDate = ""
    /\ rawVersion = <<>>
    /\ readFailed = {}
    /\ regTrace = NoRegTrace

DrvInit ==
    /\ VendorIdle
    /\ \E loadable \in {Libs, Libs \ {"setupapi"}}, os \in {WinOld, Win10},
          exported \in {AllSymbols, AllSymbols \ {"SetupDiEnumDeviceInfo"}} :
          Constructed(loadable, os, exported)
    /\ OutIdle
    /\ MainIdle
    /\ deviceName \in {"", "GPU"}
    /\ infoOut \in DriverInfos
    /\ infoBefore = infoOut
    /\ drvPc = "entry"
    /\ drvResult = "none"
    /\ devInfoList = "none"
    /\ destroyCalls = 0
    /\ index = 0
    /\ description = "none"
    /\ found = FALSE
    /\ registryKeyName = ""
    /\ providerName = {}
    /\ driverVersion = <<>>
    /\ driverDate = ""
    /\ rawVersion = <<>>
    /\ readFailed = {}
    /\ regTrace = NoRegTrace

OutInit ==
    /\ VendorIdle
    /\ \E loadable \in {Libs, Libs \ {"gdi32", "shcore"}}, os \in {WinVista, Win10},
          exported \in {AllSymbols, AllSymbols \ {"EnumDisplaySettingsW"}} :
          Constructed(loadable, os, exported)
    /\ DrvIdle
    /\ MainIdle
    /\ outPc = "modes"
    /\ outputDeviceName \in {<<>>, Display1}
    /\ monitor \in BOOLEAN
    /\ modesOutcome = "none"
    /\ modeList = <<>>
    /\ maxRefreshRate = NotDeclared
    /\ pathInfos = <<>>
    /\ tries = 0
    /\ erased = 0
    /\ sdrWhiteLevel = NotDeclared
    /\ refreshRate = NotDeclared
    /\ userFriendlyName = <<>>
    /\ dpi = USER_DEFAULT_SCREEN_DPI
    /\ returned = NothingReturned
    /\ calls = NothingCalled
    /\ answered = NoAnswers
    /\ printed = NothingPrinted

OutNext ==
    \/ OutModes
    \/ OutModesEnd
    \/ PathInfoEntry
    \/ PathInfoQuery
    \/ PathInfoFilter
    \/ OutSdr
    \/ OutRefresh
    \/ OutName
    \/ OutPathEnd
    \/ OutDpi

\* --------------------------------------------------- wmain, lines 669-931
MaxAdapters == 2
MaxOutputs == 2

\* A slip the exit-status claim must notice: gdi32 is demanded as well.
FirstUnavailableWithGdi32(libs) ==
    IF "user32" \notin libs THEN "user32"
    ELSE IF "dxgi" \notin libs THEN "dxgi"
    ELSE IF "gdi32" \notin libs THEN "gdi32"
    ELSE "none"

\* Lines 693-700: the library whose absence ends the run, checked in this
\* order, or "none".
FirstUnavailable(libs) ==
    IF "user32" \notin libs THEN "user32"
    ELSE IF "dxgi" \notin libs THEN "dxgi"
    ELSE "none"

\* return EXIT_FAILURE / EXIT_SUCCESS, or the run ends without returning.
MainEnd(code, cause) ==
    /\ mainPc' = "done"
    /\ exitCode' = code
    /\ endedBy' = cause

\* Lines 693-700.
MainCheckLibs ==
    /\ mainPc = "start"
    /\ OutsideMain
    /\ UNCHANGED <<available, dpiAwarenessCalls, dpiAwarenessAnswer, adapterIndex, adapter,
                   adapterEnum, adapterVisits, outputIndex, output, outputEnum, outputVisits,
                   report>>
    /\ IF FirstUnavailable(available) # "none"
       THEN MainEnd("EXIT_FAILURE", FirstUnavailable(available))
       ELSE /\ mainPc' = "dpiAwareness"
            /\ UNCHANGED <<exitCode, endedBy>>

\* A slip the DPI-awareness claim must notice: ERROR_ACCESS_DENIED ends the
\* run like any other error.
MainDpiAwarenessDeniedIsFatal ==
    /\ mainPc = "dpiAwareness"
    /\ OutsideMain
    /\ UNCHANGED <<available, adapterIndex, adapter, adapterEnum, adapterVisits,
                   outputIndex, output, outputEnum, outputVisits, report>>
    /\ IF "SetProcessDpiAwarenessContext" \notin resolved
       THEN /\ mainPc' = "factory"
            /\ UNCHANGED <<exitCode, endedBy, dpiAwarenessCalls, dpiAwarenessAnswer>>
       ELSE /\ dpiAwarenessCalls' = dpiAwarenessCalls + 1
            /\ \E answer \in {"TRUE", "ERROR_ACCESS_DENIED", "otherError"} :
                  /\ dpiAwarenessAnswer' = answer
                  /\ IF answer # "TRUE"
                     THEN MainEnd("EXIT_FAILURE", "dpiAwareness")
                     ELSE /\ mainPc' = "factory"
                          /\ UNCHANGED <<exitCode, endedBy>>

\* Lines 701-709.  The call succeeds, fails with ERROR_ACCESS_DENIED, or
\* fails with another error.
MainDpiAwareness ==
    /\ mainPc = "dpiAwareness"
    /\ OutsideMain
    /\ UNCHANGED <<available, adapterIndex, adapter, adapterEnum, adapterVisits,
                   outputIndex, output, outputEnum, outputVisits, report>>
    /\ IF "SetProcessDpiAwarenessContext" \notin resolved
       THEN /\ mainPc' = "factory"
            /\ UNCHANGED <<exitCode, endedBy, dpiAwarenessCalls, dpiAwarenessAnswer>>
       ELSE /\ dpiAwarenessCalls' = dpiAwarenessCalls + 1
            /\ \E answer \in {"TRUE", "ERROR_ACCESS_DENIED", "otherError"} :
                  /\ dpiAwarenessAnswer' = answer
                  /\ IF answer = "otherError"
                     THEN MainEnd("EXIT_FAILURE", "dpiAwareness")
                     ELSE /\ mainPc' = "factory"
                          /\ UNCHANGED <<exitCode, endedBy>>

\* Lines 710-729: the factory is created, or the run ends.
MainFactory ==
    /\ mainPc = "factory"
    /\ OutsideMain
    /\ dpiAwarenessAnswer' = "none"
    /\ UNCHANGED <<available, dpiAwarenessCalls, adapterIndex, adapter, adapterEnum,
                   adapterVisits, outputIndex, output, outputEnum, outputVisits, report>>
    /\ IF "CreateDXGIFactory1" \notin resolved
       THEN MainEnd("EXIT_FAILURE", "noFactoryEntry")
       ELSE \E succeeded \in BOOLEAN :
               IF succeeded
               THEN /\ mainPc' = "enumAdapter"
                    /\ UNCHANGED <<exitCode, endedBy>>
               ELSE MainEnd("EXIT_FAILURE", "factoryFailed")

\* What getDriverInfo can end with (the driver-info specification): it
\* returns false without the four setupapi entry points.
DriverOutcomes(api) ==
    IF SetupApiNeeded \subseteq api THEN {"true", "false", "exception"} ELSE {"false"}

\* Line 731's loop test: EnumAdapters1(adapterIndex, ReleaseAndGetAddressOf()).
\* It hands out an adapter, answers DXGI_ERROR_NOT_FOUND, or answers
\* another error; the ComPtr is null after either failure.
MainEnumAdapter ==
    /\ mainPc = "enumAdapter"
    /\ OutsideMain
    /\ adapterVisits' = Append(adapterVisits, adapterIndex)
    /\ UNCHANGED <<available, dpiAwarenessCalls, dpiAwarenessAnswer, adapterIndex,
                   outputIndex, output, outputEnum, outputVisits>>
    /\ \/ /\ adapterIndex < MaxAdapters
          /\ adapterEnum' = "ok"
          /\ adapter' = "held"
          /\ mainPc' = "adapterDesc"
          /\ UNCHANGED <<exitCode, endedBy, report>>
       \/ /\ adapterIndex < MaxAdapters
          /\ adapterEnum' = "error"
          /\ adapter' = "null"
          /\ mainPc' = "adapterDesc"
          /\ UNCHANGED <<exitCode, endedBy, report>>
       \/ /\ adapterEnum' = "DXGI_ERROR_NOT_FOUND"
          /\ adapter' = "null"
          /\ report' = Append(report, [line |-> "exit"])
          /\ MainEnd("EXIT_SUCCESS", "return")

\* Lines 732-768: GetDesc1 through the adapter pointer, and the adapter's
\* header.  Through a null pointer the call is undefined: the run crashes,
\* or goes on as if the call had failed or succeeded.
MainAdapterDesc ==
    /\ mainPc = "adapterDesc"
    /\ OutsideMain
    /\ UNCHANGED <<available, dpiAwarenessCalls, dpiAwarenessAnswer, adapter, adapterEnum,
                   adapterVisits, outputIndex, output, outputEnum, outputVisits>>
    /\ \/ /\ adapter = "null"
          /\ MainEnd("abnormal", "nullHandle")
          /\ UNCHANGED <<adapterIndex, report>>
       \/ /\ report' = Append(report, [line |-> "adapterDescFailed", adapter |-> adapterIndex])
          /\ adapterIndex' = adapterIndex + 1
          /\ mainPc' = "enumAdapter"
          /\ UNCHANGED <<exitCode, endedBy>>
       \/ /\ report' = Append(report, [line |-> "adapter", adapter |-> adapterIndex])
          /\ mainPc' = "driver"
          /\ UNCHANGED <<adapterIndex, exitCode, endedBy>>

\* Lines 769-774: the call of getDriverInfo; an exception that leaves it
\* is caught nowhere.
MainDriver ==
    /\ mainPc = "driver"
    /\ OutsideMain
    /\ UNCHANGED <<available, dpiAwarenessCalls, dpiAwarenessAnswer, adapterIndex, adapter,
                   adapterEnum, adapterVisits, output, outputEnum>>
    /\ \E outcome \in DriverOutcomes(resolved) :
          IF outcome = "exception"
          THEN /\ MainEnd("abnormal", "exception")
               /\ UNCHANGED <<outputIndex, outputVisits, report>>
          ELSE /\ report' = IF outcome = "true"
                            THEN Append(report, [line |-> "driver", adapter |-> adapterIndex])
                            ELSE report
               /\ outputIndex' = 0
               /\ outputVisits' = <<>>
               /\ mainPc' = "enumOutput"
               /\ UNCHANGED <<exitCode, endedBy>>

\* Line 775's loop test: EnumOutputs(outputIndex, ReleaseAndGetAddressOf()),
\* called through the adapter pointer.
MainEnumOutput ==
    /\ mainPc = "enumOutput"
    /\ OutsideMain
    /\ UNCHANGED <<available, dpiAwarenessCalls, dpiAwarenessAnswer, adapter, adapterEnum,
                   adapterVisits, outputIndex, report>>
    /\ \/ /\ adapter = "null"
          /\ MainEnd("abnormal", "nullHandle")
          /\ UNCHANGED <<adapterIndex, output, outputEnum, outputVisits>>
       \/ /\ outputIndex < MaxOutputs
          /\ outputVisits' = Append(outputVisits, outputIndex)
          /\ outputEnum' = "ok"
          /\ output' = "held"
          /\ mainPc' = "outputDesc"
          /\ UNCHANGED <<adapterIndex, exitCode, endedBy>>
       \/ /\ outputIndex < MaxOutputs
          /\ outputVisits' = Append(outputVisits, outputIndex)
          /\ outputEnum' = "error"
          /\ output' = "null"
          /\ mainPc' = "outputDesc"
          /\ UNCHANGED <<adapterIndex, exitCode, endedBy>>
       \/ /\ outputVisits' = Append(outputVisits, outputIndex)
          /\ outputEnum' = "DXGI_ERROR_NOT_FOUND"
          /\ output' = "null"
          /\ adapterIndex' = adapterIndex + 1
          /\ mainPc' = "enumAdapter"
          /\ UNCHANGED <<exitCode, endedBy>>

\* Lines 776-924: GetDesc through the output pointer, and the output's
\* lines (the one-output specification has their detail).
MainOutputDesc ==
    /\ mainPc = "outputDesc"
    /\ OutsideMain
    /\ outputIndex' = outputIndex + 1
    /\ UNCHANGED <<available, dpiAwarenessCalls, dpiAwarenessAnswer, adapterIndex, adapter,
                   adapterEnum, adapterVisits, output, outputEnum, outputVisits>>
    /\ \/ /\ output = "null"
          /\ MainEnd("abnormal", "nullHandle")
          /\ UNCHANGED report
       \/ /\ report' = Append(report, [line |-> "outputDescFailed", adapter |-> adapterIndex,
                                       output |-> outputIndex])
          /\ mainPc' = "enumOutput"
          /\ UNCHANGED <<exitCode, endedBy>>
       \/ /\ report' = Append(report, [line |-> "output", adapter |-> adapterIndex,
                                       output |-> outputIndex])
          /\ mainPc' = "enumOutput"
          /\ UNCHANGED <<exitCode, endedBy>>

MainInit ==
    /\ VendorIdle
    /\ \E loadable \in {Libs} \cup {Libs \ {lib} : lib \in Libs},
          os \in {WinVista, Win7, Win10},
          exported \in {AllSymbols, AllSymbols \ {"CreateDXGIFactory1"}} :
          Constructed(loadable, os, exported)
    /\ DrvIdle
    /\ OutIdle
    /\ mainPc = "start"
    /\ exitCode = "none"
    /\ endedBy = "none"
    /\ dpiAwarenessCalls = 0
    /\ dpiAwarenessAnswer = "none"
    /\ adapterIndex = 0
    /\ adapter = "null"
    /\ adapterEnum = "none"
    /\ adapterVisits = <<>>
    /\ outputIndex = 0
    /\ output = "null"
    /\ outputEnum = "none"
    /\ outputVisits = <<>>
    /\ report = <<>>

MainNext ==
    \/ MainCheckLibs
    \/ MainDpiAwareness
    \/ MainFactory
    \/ MainEnumAdapter
    \/ MainAdapterDesc
    \/ MainDriver
    \/ MainEnumOutput
    \/ MainOutputDesc

\* ------------------------------------------- the library singletons
\* DLLBASE_DECL_INSTANCE: a function-local static, constructed at the first
\* call of instance() and never again.  The constructor of the class of
\* lib: LOAD_DLL, then, if the library loaded, LOAD_API for each symbol
\* whose version test passes; the pointer is what GetProcAddress returned.
Construct(lib) ==
    /\ lib \notin initialized
    /\ initialized' = initialized \cup {lib}
    /\ osVersion' = osVersion
    /\ \/ /\ available' = available
          /\ UNCHANGED <<lookedUp, resolved>>
       \/ /\ available' = available \cup {lib}
          /\ lookedUp' = lookedUp \cup LookedUp({lib}, osVersion)
          /\ \E missing \in SUBSET SymbolsOf(lib) :
                /\ Cardinality(missing) <= MaxMissing
                /\ resolved' = resolved \cup
                                  ResolvedBy({lib}, osVersion, AllSymbols \ missing)
    /\ OutsideLoader
    /\ UNCHANGED <<mainPc, exitCode, endedBy, dpiAwarenessCalls, dpiAwarenessAnswer,
                   adapterIndex, adapter, adapterEnum, adapterVisits, outputIndex, output,
                   outputEnum, outputVisits, report>>

User32DLL == Construct("user32")

Gdi32DLL == Construct("gdi32")

DXGIDLL == Construct("dxgi")

SHCOREDLL == Construct("shcore")

SETUPAPIDLL == Construct("setupapi")

\* The process before any singleton is constructed: DECL_API declares every
\* pointer null and m_dll starts null.
LoaderInit ==
    /\ VendorIdle
    /\ osVersion \in OsVersions
    /\ initialized = {}
    /\ available = {}
    /\ lookedUp = {}
    /\ resolved = {}
    /\ DrvIdle
    /\ OutIdle
    /\ MainIdle

LoaderNext ==
    \/ User32DLL
    \/ Gdi32DLL
    \/ DXGIDLL
    \/ SHCOREDLL
    \/ SETUPAPIDLL

\* ---------------------------------------------- the vendor of an adapter
\* Line 743: one call of vendorIdToVendor.
VendorCall ==
    /\ Len(vendorsReturned) < MaxVendorCalls
    /\ vendorLine = "none"
    /\ vendorsReturned' = Append(vendorsReturned, VendorIdToVendor(adapterVendorId))
    /\ UNCHANGED <<adapterVendorId, vendorLine>>
    /\ OutsideVendor

\* Lines 744-747: the name of a vendor other than Unknown is looked up and
\* appended to the line.
VendorPrint ==
    /\ vendorsReturned # <<>>
    /\ vendorLine = "none"
    /\ LET vendor == vendorsReturned[Len(vendorsReturned)]
       IN  vendorLine' = IF vendor # "Unknown" THEN VendorNameAt(vendor) ELSE ""
    /\ UNCHANGED <<adapterVendorId, vendorsReturned>>
    /\ OutsideVendor

VendorInit ==
    /\ adapterVendorId \in VendorIds
    /\ vendorsReturned = <<>>
    /\ vendorLine = "none"
    /\ \E loadable \in {Libs}, os \in {Win10}, exported \in {AllSymbols} :
          Constructed(loadable, os, exported)
    /\ DrvIdle
    /\ OutIdle
    /\ MainIdle

VendorNext ==
    \/ VendorCall
    \/ VendorPrint

\* ------------------------------------ the two resolvers that hold handles
\* wmain calls getDriverInfo for an adapter (line 770) and runs the body of
\* the output loop for each of its outputs, one after the other: a run of
\* either, on a host where every library loaded and every symbol resolved.
HandlesInit ==
    /\ VendorIdle
    /\ MainIdle
    /\ \E loadable \in {Libs}, os \in {Win10}, exported \in {AllSymbols} :
          Constructed(loadable, os, exported)
    /\ infoOut = [version |-> <<>>, date |-> ""]
    /\ infoBefore = infoOut
    /\ drvResult = "none"
    /\ devInfoList = "none"
    /\ destroyCalls = 0
    /\ index = 0
    /\ description = "none"
    /\ found = FALSE
    /\ registryKeyName = ""
    /\ providerName = {}
    /\ driverVersion = <<>>
    /\ driverDate = ""
    /\ rawVersion = <<>>
    /\ readFailed = {}
    /\ regTrace = NoRegTrace
    /\ monitor \in BOOLEAN
    /\ modesOutcome = "none"
    /\ modeList = <<>>
    /\ maxRefreshRate = NotDeclared
    /\ pathInfos = <<>>
    /\ tries = 0
    /\ erased = 0
    /\ sdrWhiteLevel = NotDeclared
    /\ refreshRate = NotDeclared
    /\ userFriendlyName = <<>>
    /\ dpi = USER_DEFAULT_SCREEN_DPI
    /\ returned = NothingReturned
    /\ calls = NothingCalled
    /\ answered = NoAnswers
    /\ printed = NothingPrinted
    /\ \/ /\ drvPc = "entry"
          /\ deviceName \in {"", "GPU"}
          /\ outPc = "idle"
          /\ outputDeviceName = <<>>
          /\ monitor = FALSE
       \/ /\ drvPc = "idle"
          /\ deviceName = ""
          /\ outPc = "modes"
          /\ outputDeviceName \in {<<>>, Display1}

HandlesNext ==
    \/ DrvNext
    \/ OutNext

\* ------------------------------------------ the output block as scheduled
\* The body of the output loop from the call of getPathInfo on (lines
\* 901-924) for one output, on a host where every library loaded.  The
\* program is one thread and every native call returns to it, so the
\* statement that comes next is executed: the block is weakly fair.
ScheduledInit ==
    /\ VendorIdle
    /\ \E loadable \in {Libs}, os \in {WinVista, Win10}, exported \in {AllSymbols} :
          Constructed(loadable, os, exported)
    /\ DrvIdle
    /\ MainIdle
    /\ outPc = "pathInfo"
    /\ outputDeviceName \in {<<>>, Display1}
    /\ monitor \in BOOLEAN
    /\ modesOutcome = "none"
    /\ modeList = <<>>
    /\ maxRefreshRate = NotDeclared
    /\ pathInfos = <<>>
    /\ tries = 0
    /\ erased = 0
    /\ sdrWhiteLevel = NotDeclared
    /\ refreshRate = NotDeclared
    /\ userFriendlyName = <<>>
    /\ dpi = USER_DEFAULT_SCREEN_DPI
    /\ returned = NothingReturned
    /\ calls = NothingCalled
    /\ answered = NoAnswers
    /\ printed = NothingPrinted

ScheduledNext ==
    \/ PathInfoEntry
    \/ PathInfoQuery
    \/ PathInfoFilter
    \/ OutSdr
    \/ OutRefresh
    \/ OutName
    \/ OutPathEnd
    \/ OutDpi

SpecLoader == LoaderInit /\ [][LoaderNext]_vars

SpecHandles == HandlesInit /\ [][HandlesNext]_vars

SpecVendor == VendorInit /\ [][VendorNext]_vars

SpecDriver == DrvInit /\ [][DrvNext]_vars

SpecOutput == OutInit /\ [][OutNext]_vars

SpecMain == MainInit /\ [][MainNext]_vars

SpecScheduled == ScheduledInit /\ [][ScheduledNext]_vars /\ WF_vars(ScheduledNext)

\* ------------------------------------------------ claims: getDriverInfo
DrvReturned == drvPc = "done" /\ drvResult \in {"true", "false"}
RequiredReads == {"DriverProvider", "DriverVersion", "DriverDate"}

\* C2 as stated: after a device matched, a failed read of any of the four
\* properties (driver key, provider, version, date) makes the call return
\* failure; a failure return leaves infoOut as it was; success needs all
\* four reads.
C2_AnyOfFourReadsFails ==
    DrvReturned =>
        /\ (found /\ readFailed # {}) => drvResult = "false"
        /\ drvResult = "false" => infoOut = infoBefore
        /\ drvResult = "true" => readFailed = {}

\* C2 amended: a failed read of the provider name, the raw version or the
\* raw date makes the call return failure; a failed read of the driver key
\* only leaves registryKeyName empty; a failure return leaves infoOut as it
\* was; success needs a matched device and those three reads.
C2_RequiredReadFails ==
    /\ "Driver" \in readFailed => registryKeyName = ""
    /\ drvPc = "done" =>
          /\ readFailed \cap RequiredReads # {} => drvResult = "false"
          /\ drvResult = "false" => infoOut = infoBefore
          /\ drvResult = "true" => found /\ readFailed \cap RequiredReads = {}

C2_Witness ==
    /\ drvPc = "done" /\ found /\ drvResult = "false"
    /\ readFailed = {"Driver", "DriverDate"}
    /\ infoBefore.version # <<>> /\ infoOut = infoBefore

\* The text after the second '.' of a string, or the string itself when it
\* has fewer than two.
Dots(s) == {i \in 1..Len(s) : s[i] = "."}
AfterSecondDot(s) ==
    IF Cardinality(Dots(s)) < 2 THEN s
    ELSE LET second == CHOOSE i \in Dots(s) : Cardinality({j \in Dots(s) : j < i}) = 1
         IN  SubSeq(s, second + 1, Len(s))

\* C3: for an Intel provider the version returned is the raw version with
\* everything up to and including its second '.'-delimited segment dropped
\* ("27.20.100.8935" gives "100.8935"); fewer than two '.' leave it as read.
\* Stated for a provider name that holds no other vendor marker.
C3_IntelDropsTwoSegments ==
    (drvPc = "done" /\ drvResult = "true" /\ providerName = {"Intel"}) =>
        infoOut.version = AfterSecondDot(rawVersion)

\* The last six characters without their dots, one dot put back after the
\* third of them.
LastSixRegrouped(s) ==
    LET digits == SelectSeq(SubSeq(s, Len(s) - 5, Len(s)), LAMBDA ch : ch # ".")
        third == IF Len(digits) < 3 THEN Len(digits) ELSE 3
    IN  SubSeq(digits, 1, third) \o <<".">> \o SubSeq(digits, third + 1, Len(digits))

\* C4: for an NVIDIA provider the version returned is the regrouped last
\* six characters of a raw version of six or more characters ("9.18.13.4788"
\* gives "347.88"), and the raw version itself when it is shorter.  Stated
\* for a provider name that holds no other vendor marker, once the device
\* matched and the provider, the version and the date were read.
C4_NvidiaRegroupsLastSix ==
    (drvPc = "done" /\ found /\ readFailed \cap RequiredReads = {}
        /\ providerName = {"NVIDIA"}) =>
        infoOut.version = IF Len(rawVersion) >= 6 THEN LastSixRegrouped(rawVersion)
                          ELSE rawVersion

\* C5: getDriverInfo always ends by returning true or false to its caller;
\* no exception leaves it.
C5_NoExceptionEscapes == drvPc = "done" => drvResult \in {"true", "false"}

\* --------------------------------------------------- claims: one output
Rated(path) == path.Numerator > 0 /\ path.Denominator > 0
LegacyEntryPoints == {"EnumDisplaySettingsW", "CreateDCW", "GetDeviceCaps", "DeleteDC"}

\* C1: when a filtered path has a positive numerator and denominator,
\* getRefreshRate returns true with the quotient of the first such path,
\* and calls neither EnumDisplaySettingsW nor CreateDCW, GetDeviceCaps or
\* DeleteDC.
C1_FirstRatedPathWins ==
    (outPc \in {"name", "pathEnd"} /\ \E i \in DOMAIN pathInfos : Rated(pathInfos[i])) =>
        LET first == CHOOSE i \in DOMAIN pathInfos :
                        /\ Rated(pathInfos[i])
                        /\ \A j \in 1..(i - 1) : ~Rated(pathInfos[j])
        IN  /\ returned.getRefreshRate = "true"
            /\ refreshRate[2] > 0
            /\ refreshRate[1] * pathInfos[first].Denominator
                  = pathInfos[first].Numerator * refreshRate[2]
            /\ printed.refreshRate = <<refreshRate>>
            /\ calls.settings = 0 /\ calls.create = 0
            /\ calls.caps = 0 /\ calls.delete = 0

C1_Witness ==
    /\ outPc = "name" /\ returned.getRefreshRate = "true"
    /\ LegacyEntryPoints \subseteq resolved
    /\ Len(pathInfos) = 2
    /\ pathInfos[1].Numerator = 60 /\ pathInfos[1].Denominator = 0
    /\ pathInfos[2].Numerator = 119 /\ pathInfos[2].Denominator = 2
    /\ refreshRate = <<119, 2>>
    /\ calls.settings = 0 /\ calls.create = 0

\* v is max(60, the quotients of modes): at least 60 and at least every
\* quotient, and 60 or one of them.  n/0 with n > 0 is +infinity, 0/0 is
\* no number and is passed over.
IsFlooredMaximum(v, modes) ==
    /\ v[1] >= 60 * v[2]
    /\ \A k \in DOMAIN modes :
          (modes[k][1] > 0 \/ modes[k][2] > 0) => modes[k][1] * v[2] <= v[1] * modes[k][2]
    /\ \/ v = <<60, 1>>
       \/ \E k \in DOMAIN modes :
             /\ modes[k][1] > 0
             /\ IF modes[k][2] = 0 THEN v = <<1, 0>>
                ELSE v[2] > 0 /\ modes[k][1] * v[2] = v[1] * modes[k][2]

\* C6 as stated: every output yields a maximum refresh rate, max(60, the
\* modes' quotients); an empty list or a failed request yields 60.
C6_EveryOutputYieldsMaximum ==
    outPc = "modesEnd" =>
        /\ printed.maxRefreshRate # <<>>
        /\ IsFlooredMaximum(printed.maxRefreshRate[1], modeList)

\* C6 amended: when the interface query, the count request (with a count
\* above zero) and the list request all succeed, the maximum written is
\* max(60, the modes' quotients); otherwise no maximum is written.
C6_ListedModesYieldMaximum ==
    outPc = "modesEnd" =>
        IF modesOutcome = "listed"
        THEN /\ printed.maxRefreshRate # <<>>
             /\ IsFlooredMaximum(printed.maxRefreshRate[1], modeList)
             /\ maxRefreshRate = printed.maxRefreshRate[1]
        ELSE printed.maxRefreshRate = <<>> /\ maxRefreshRate = NotDeclared

C6_Witness ==
    /\ outPc = "modesEnd" /\ modesOutcome = "listed"
    /\ modeList = <<<<144, 1>>, <<30, 1>>>>
    /\ printed.maxRefreshRate = <<<<144, 1>>>>

\* C8 as stated: after a resolver fails, or is not called because
\* getPathInfo failed, the documented default is the value the output's
\* attribute gets.
C8_DefaultIsAttributeValue ==
    /\ (returned.getSdrWhiteLevelInNit = "false" \/ returned.getPathInfo = "false") =>
          printed.sdrWhiteLevel = <<<<200, 1>>>>
    /\ (returned.getRefreshRate = "false" \/ returned.getPathInfo = "false") =>
          printed.refreshRate = <<<<60, 1>>>>
    /\ returned.getDpi = "false" => printed.dpi = <<96, 100>>

\* C8 amended: after getSdrWhiteLevelInNit, getRefreshRate or getDpi fails,
\* the caller's variable holds the default (200, 60, 96) while it is in
\* scope and nothing is written for the attribute; when getPathInfo fails
\* the first two are not called, their variables are never declared and
\* nothing is written for them.
C8_FailedResolverLeavesDefaultUnwritten ==
    /\ returned.getSdrWhiteLevelInNit = "false" =>
          /\ printed.sdrWhiteLevel = <<>>
          /\ outPc \in {"refresh", "name", "pathEnd"} => sdrWhiteLevel = <<200, 1>>
    /\ returned.getRefreshRate = "false" =>
          /\ printed.refreshRate = <<>>
          /\ outPc \in {"name", "pathEnd"} => refreshRate = <<60, 1>>
    /\ returned.getDpi = "false" => printed.dpi = <<>> /\ dpi = 96
    /\ returned.getPathInfo = "false" =>
          /\ returned.getSdrWhiteLevelInNit = "none"
          /\ returned.getRefreshRate = "none"
          /\ sdrWhiteLevel = NotDeclared /\ refreshRate = NotDeclared
          /\ printed.sdrWhiteLevel = <<>> /\ printed.refreshRate = <<>>

C8_Witness ==
    /\ outPc = "pathEnd"
    /\ returned.getSdrWhiteLevelInNit = "false" /\ calls.whiteLevel = 2
    /\ returned.getRefreshRate = "false" /\ calls.settings = 1 /\ calls.caps = 1
    /\ sdrWhiteLevel = <<200, 1>> /\ refreshRate = <<60, 1>>
    /\ printed.sdrWhiteLevel = <<>> /\ printed.refreshRate = <<>>

\* C9: the filter of getPathInfo leaves exactly the fetched paths whose
\* source name is the target name, in their order (a path whose name
\* cannot be read is dropped like one with another name), and getPathInfo
\* then returns true exactly when that list is not empty.
C9_FilterKeepsMatchingPaths ==
    [][outPc = "filter" =>
          /\ pathInfos' = SelectSeq(pathInfos, LAMBDA path : path.source = outputDeviceName)
          /\ returned'.getPathInfo = (IF pathInfos' # <<>> THEN "true" ELSE "false")]_vars

C9_Witness ==
    /\ outPc = "sdr" /\ returned.getPathInfo = "true"
    /\ erased = 1
    /\ Len(pathInfos) = 1 /\ pathInfos[1].id = 2 /\ pathInfos[1].source = outputDeviceName

\* ------------------------------------------------------- claims: wmain
StartupCauses == {"user32", "dxgi", "dpiAwareness", "noFactoryEntry", "factoryFailed"}

\* C7: without user32, dxgi or the CreateDXGIFactory1 entry point the run
\* returns EXIT_FAILURE before any adapter is enumerated; EXIT_FAILURE is
\* returned for nothing but those three, a failed DPI-awareness call and a
\* failed factory creation, so for no other absent library or entry point;
\* a run that got past them and returns has scanned the adapters to their
\* end and returns EXIT_SUCCESS.
C7_OnlyMandatoryAbsenceFails ==
    /\ (mainPc = "done" /\ ("user32" \notin available \/ "dxgi" \notin available
                             \/ "CreateDXGIFactory1" \notin resolved)) =>
          exitCode = "EXIT_FAILURE" /\ adapterVisits = <<>>
    /\ exitCode = "EXIT_FAILURE" =>
          /\ adapterVisits = <<>>
          /\ endedBy \in StartupCauses
          /\ endedBy = "user32" => "user32" \notin available
          /\ endedBy = "dxgi" => "dxgi" \notin available
          /\ endedBy = "noFactoryEntry" => "CreateDXGIFactory1" \notin resolved
          /\ endedBy = "dpiAwareness" => "SetProcessDpiAwarenessContext" \in resolved
    /\ (mainPc = "done" /\ endedBy \notin StartupCauses \cup {"exception", "nullHandle"}) =>
          /\ exitCode = "EXIT_SUCCESS"
          /\ adapterEnum = "DXGI_ERROR_NOT_FOUND"

C7_Witness ==
    /\ mainPc = "done" /\ exitCode = "EXIT_SUCCESS"
    /\ available = Libs \ {"gdi32"}
    /\ "SetProcessDpiAwarenessContext" \notin resolved
    /\ \E k \in DOMAIN report : report[k].line = "output"
    /\ Len(adapterVisits) = MaxAdapters + 1

\* C10: both scans pass the indices 0, 1, 2, ... to the enumeration and
\* end at the first index answered with "no more" (a run ended by an
\* exception of getDriverInfo apart); an adapter whose descriptor fetch
\* failed has no other line in the report, and an adapter index passed
\* before the end was reported or skipped.
C10_ScanEndsAtFirstNotFound ==
    /\ \A k \in DOMAIN adapterVisits : adapterVisits[k] = k - 1
    /\ \A k \in DOMAIN outputVisits : outputVisits[k] = k - 1
    /\ (mainPc = "done" /\ adapterVisits # <<>> /\ endedBy # "exception") =>
          adapterEnum = "DXGI_ERROR_NOT_FOUND"
    /\ mainPc = "enumAdapter" /\ outputVisits # <<>> => outputEnum = "DXGI_ERROR_NOT_FOUND"
    /\ \A k, m \in DOMAIN report :
          (report[k].line = "adapterDescFailed" /\ m # k /\ report[m].line # "exit") =>
              report[m].adapter # report[k].adapter

\* ------------------------------------------- claims: the AMD registry
\* The call returned true for an AMD provider (one that does not also hold
\* the Intel marker, whose rewrite runs afterwards) after the registry key
\* was opened.
AmdKeyOpened ==
    /\ drvPc = "done" /\ drvResult = "true"
    /\ Contains(providerName, "Advanced Micro Devices")
    /\ ~Contains(providerName, "Intel")
    /\ regTrace.open = "ok"

\* C11 as stated: with the key opened, a Catalyst_Version value that exists
\* makes the version "Catalyst " + value; RadeonSoftwareEdition and
\* RadeonSoftwareVersion that both exist make it edition + " " + version,
\* also when the Catalyst value exists.
C11_ExistingValuesRewrite ==
    AmdKeyOpened =>
        IF Yes(regTrace.hasEd) /\ Answered(regTrace.ed)
              /\ Yes(regTrace.hasVer) /\ Answered(regTrace.ver)
        THEN infoOut.version = regTrace.ed.val \o <<" ">> \o regTrace.ver.val
        ELSE (Yes(regTrace.hasCat) /\ Answered(regTrace.cat)) =>
                 infoOut.version = <<"C", "a", "t", "a", "l", "y", "s", "t", " ">>
                                      \o regTrace.cat.val

\* C11 amended: a Catalyst_Version value that exists and is not empty makes
\* the version "Catalyst " + value; an edition and a version that both
\* exist and are not empty make it edition + " " + version, also when the
\* Catalyst value applies; an empty value changes nothing.
C11_NonEmptyValuesRewrite ==
    AmdKeyOpened =>
        IF NonEmpty(regTrace.ed) /\ NonEmpty(regTrace.ver)
        THEN infoOut.version = regTrace.ed.val \o <<" ">> \o regTrace.ver.val
        ELSE /\ NonEmpty(regTrace.cat) =>
                   infoOut.version = <<"C", "a", "t", "a", "l", "y", "s", "t", " ">>
                                        \o regTrace.cat.val
             /\ (Answered(regTrace.cat) /\ regTrace.cat.val = <<>>) =>
                   infoOut.version # <<"C", "a", "t", "a", "l", "y", "s", "t", " ">>

C11_Witness ==
    /\ AmdKeyOpened
    /\ NonEmpty(regTrace.cat) /\ NonEmpty(regTrace.ed) /\ NonEmpty(regTrace.ver)
    /\ infoOut.version = <<"C", "r", "i", "m", "s", "o", "n", " ", "1", "5", ".", "1", "2">>

\* The registry access failed: the key did not open, or a call threw.
RegistryFailed ==
    \/ regTrace.open \in {"null", "throw"}
    \/ "throw" \in {regTrace.hasCat.st, regTrace.cat.st, regTrace.hasEd.st,
                    regTrace.ed.st, regTrace.hasVer.st, regTrace.ver.st}

\* C12: for an AMD provider (holding no other vendor marker), once the
\* device matched and its three required properties were read, a registry
\* access that fails in any way leaves the version returned equal to the
\* raw version, and the call returns true.
C12_RegistryFailureKeepsRaw ==
    (drvPc = "done" /\ found /\ readFailed \cap RequiredReads = {}
        /\ providerName = {"Advanced Micro Devices"} /\ RegistryFailed) =>
        /\ drvResult = "true"
        /\ infoOut.version = rawVersion

\* ------------------------------------------- claims: the device scan
\* C13: the scan starts at index 0 and each turn either meets the end of
\* the list (the call returns false, no device having matched), passes over
\* a device whose description cannot be read or does not contain the
\* target and goes on with the next index, or takes the device as the
\* match and leaves the scan; outside the scan no device is examined, so
\* none after the match.
C13_ScanTakesFirstMatch ==
    [][/\ drvPc = "entry" => index = 0
       /\ drvPc = "scan" =>
             \/ /\ description' = "end"
                /\ drvPc' = "done" /\ drvResult' = "false"
                /\ ~found' /\ index' = index
             \/ /\ description' \in {"unreadable", "other"}
                /\ drvPc' = "scan" /\ ~found' /\ index' = index + 1
             \/ /\ description' = "match"
                /\ drvPc' = "provider" /\ found' /\ index' = index
       /\ drvPc # "scan" =>
             /\ index' = index /\ description' = description /\ found' = found
             /\ drvPc' # "scan" \/ (drvPc = "entry" /\ ~found)]_vars

C13_Witness ==
    /\ drvPc = "done" /\ drvResult = "true"
    /\ found /\ description = "match" /\ index = 1

RegisteredIds == {vendorIdMap[i][1] : i \in 1..Len(vendorIdMap)}

NamedVendors == {vendorNameMap[i][1] : i \in 1..Len(vendorNameMap)}

\* C16: every call of vendorIdToVendor returns a vendor: Unknown for an ID
\* that is not a key of vendorIdMap, and for a key the vendor of its entry,
\* the same on every call; each returned vendor is a key of vendorNameMap,
\* and the name lookup of wmain never throws.
C16_VendorMappingIsTotal ==
    /\ \A i \in 1..Len(vendorsReturned) :
          /\ adapterVendorId \notin RegisteredIds => vendorsReturned[i] = "Unknown"
          /\ adapterVendorId \in RegisteredIds =>
                \E k \in 1..Len(vendorIdMap) :
                    vendorIdMap[k] = <<adapterVendorId, vendorsReturned[i]>>
          /\ vendorsReturned[i] = vendorsReturned[1]
          /\ vendorsReturned[i] \in NamedVendors
    /\ vendorLine # "out_of_range"

C16_Witness ==
    /\ adapterVendorId = <<0, 1, 0, \H1002>>
    /\ vendorsReturned = <<"Unknown", "Unknown">>
    /\ vendorLine = ""

\* ---------------------------------------- claims: the SDR white level
\* getSdrWhiteLevelInNit returned true and the level it wrote is still in
\* scope.
SdrAnswered == returned.getSdrWhiteLevelInNit = "true" /\ sdrWhiteLevel # NotDeclared

\* raw * 80 / 1000 as an exact fraction.
ExactNits(raw) == FloatDiv(raw * 2, 25)

\* C17, as stated: the level returned is raw / 1000 * 80 exactly, that is,
\* nits * 1000 = raw * 80.
C17_NitsIsRawTimes80Over1000 ==
    SdrAnswered => sdrWhiteLevel = ExactNits(answered.SDRWhiteLevel)

\* C17, amended: the level returned is a single-precision value (at most 24
\* significant bits over a power of two) within 2^-22, relatively, of
\* raw * 80 / 1000, and it is raw * 80 / 1000 exactly when the raw value is
\* a multiple of 25: 1000 gives 80, 0 gives 0, 1250 gives 100.
C17_NitsIsRoundedQuotient ==
    SdrAnswered =>
        LET raw == answered.SDRWhiteLevel
            exact == ExactNits(raw)
            a == sdrWhiteLevel[1] * exact[2]
            b == exact[1] * sdrWhiteLevel[2]
        IN  /\ sdrWhiteLevel[1] <= 2^24
            /\ sdrWhiteLevel[2] \in {2^k : k \in 0..30}
            /\ raw % 25 = 0 => sdrWhiteLevel = exact
            /\ (IF a > b THEN a - b ELSE b - a) <= b \div 2^22
            /\ raw = 1000 => sdrWhiteLevel = Float(80)
            /\ raw = 0 => sdrWhiteLevel = Float(0)
            /\ raw = 1250 => sdrWhiteLevel = Float(100)

C17_Witness ==
    /\ SdrAnswered
    /\ answered.SDRWhiteLevel = 1001
    /\ sdrWhiteLevel = <<5248123, 65536>>
    /\ printed.sdrWhiteLevel = <<sdrWhiteLevel>>

\* ------------------------------------------- claims: DPI awareness
\* C18: SetProcessDpiAwarenessContext is called at most once, by the
\* startup step of lines 701-709 before any adapter is enumerated, and
\* only through a resolved pointer; after TRUE and after
\* ERROR_ACCESS_DENIED that step leaves the same state (on to the factory,
\* no exit code, nothing reported); after any other error the run has
\* ended with EXIT_FAILURE and no adapter was enumerated.
C18_DpiAwarenessOnceAtStartup ==
    /\ [](/\ dpiAwarenessCalls <= 1
          /\ dpiAwarenessCalls = 1 => "SetProcessDpiAwarenessContext" \in resolved
          /\ dpiAwarenessAnswer \in {"TRUE", "ERROR_ACCESS_DENIED"} =>
                /\ mainPc = "factory" /\ exitCode = "none" /\ endedBy = "none"
                /\ dpiAwarenessCalls = 1
                /\ report = <<>> /\ adapterVisits = <<>>
          /\ dpiAwarenessAnswer = "otherError" =>
                /\ mainPc = "done" /\ exitCode = "EXIT_FAILURE"
                /\ endedBy = "dpiAwareness"
                /\ dpiAwarenessCalls = 1
                /\ report = <<>> /\ adapterVisits = <<>>
          /\ endedBy = "dpiAwareness" => dpiAwarenessAnswer = "otherError")
    /\ [][/\ dpiAwarenessCalls' # dpiAwarenessCalls =>
                mainPc = "dpiAwareness" /\ adapterVisits = <<>>
          /\ (mainPc = "dpiAwareness" /\ "SetProcessDpiAwarenessContext" \in resolved) =>
                dpiAwarenessCalls' = 1
          /\ adapterVisits' # adapterVisits => dpiAwarenessAnswer = "none"]_vars

C18_Witness ==
    /\ dpiAwarenessAnswer = "ERROR_ACCESS_DENIED"
    /\ mainPc = "factory"
    /\ dpiAwarenessCalls = 1

\* ---------------------------------------- claims: the refresh-rate chain
\* getRefreshRate has just returned.
RefreshReturned == outPc = "name"

PathRated ==
    \E i \in DOMAIN pathInfos : pathInfos[i].Numerator > 0 /\ pathInfos[i].Denominator > 0

SettingsUsable == answered.settings = "ok" /\ answered.dmDisplayFrequency > 1

ContextUsable == answered.hdc = "held" /\ answered.caps > 1

\* C19: a path with a positive rate answers without any call; the display
\* settings are asked only without such a path (and with a device name and
\* a resolved pointer) and accepted only above 1; the device context is
\* created only if the settings gave no usable value (not asked, failed, 0
\* or 1) and accepted only above 1; the call returns false, the rate
\* unwritten, exactly when none of the three gave a usable value, which
\* includes the empty device name without a rated path.
C19_FallbackOrder ==
    RefreshReturned =>
        /\ PathRated => /\ returned.getRefreshRate = "true"
                        /\ calls.settings = 0 /\ calls.create = 0 /\ calls.caps = 0
        /\ calls.settings = 1 <=>
              /\ ~PathRated /\ outputDeviceName # <<>>
              /\ "EnumDisplaySettingsW" \in resolved
        /\ answered.settings # "none" <=> calls.settings = 1
        /\ calls.create = 1 <=>
              /\ ~PathRated /\ outputDeviceName # <<>>
              /\ {"CreateDCW", "DeleteDC", "GetDeviceCaps"} \subseteq resolved
              /\ ~SettingsUsable
        /\ answered.hdc # "none" <=> calls.create = 1
        /\ calls.caps = 1 <=> answered.hdc = "held"
        /\ calls.settings <= 1 /\ calls.create <= 1 /\ calls.caps <= 1
        /\ SettingsUsable => /\ returned.getRefreshRate = "true"
                             /\ refreshRate = Float(answered.dmDisplayFrequency)
        /\ ContextUsable => /\ returned.getRefreshRate = "true"
                            /\ refreshRate = Float(answered.caps)
        /\ returned.getRefreshRate = "false" <=>
              ~PathRated /\ ~SettingsUsable /\ ~ContextUsable
        /\ returned.getRefreshRate = "false" =>
              refreshRate = kDefaultRefreshRate /\ printed.refreshRate = <<>>
        /\ (outputDeviceName = <<>> /\ ~PathRated) => returned.getRefreshRate = "false"

C19_Witness ==
    /\ RefreshReturned
    /\ ~PathRated /\ pathInfos # <<>>
    /\ answered.settings = "ok" /\ answered.dmDisplayFrequency = 1
    /\ answered.hdc = "held" /\ answered.caps = 75
    /\ returned.getRefreshRate = "true"
    /\ refreshRate = Float(75)

\* ------------------------------------------- claims: native handles
\* getDriverInfo returned (it did not end in an exception).
DrvReturnedToCaller == drvPc = "done" /\ drvResult \in {"true", "false"}

\* C20: when getRefreshRate has returned, a device context it created was
\* passed to DeleteDC once, whether its VREFRESH value was accepted (above
\* 1) or not, and DeleteDC was called for nothing else; the device-info
\* list is open while getDriverInfo runs past its acquisition, and when the
\* call has returned, early with false or at its end, a list that was
\* acquired has been destroyed by exactly one call.
C20_HandlesReleasedOnReturn ==
    /\ outPc = "name" =>
          /\ answered.hdc = "held" => calls.create = 1 /\ calls.delete = 1
          /\ answered.hdc # "held" => calls.delete = 0
    /\ calls.delete <= calls.create
    /\ drvPc \notin {"idle", "entry", "done"} =>
          devInfoList = "open" /\ destroyCalls = 0
    /\ DrvReturnedToCaller =>
          /\ devInfoList \in {"none", "destroyed"}
          /\ destroyCalls = IF devInfoList = "destroyed" THEN 1 ELSE 0
          /\ description # "none" => devInfoList = "destroyed"
    /\ destroyCalls <= 1

C20_Witness ==
    /\ outPc = "name"
    /\ answered.hdc = "held" /\ answered.caps = 1
    /\ returned.getRefreshRate = "false"
    /\ calls.create = 1 /\ calls.delete = 1
\* ------------------------------------------- claims: the retry of line 387
\* One turn of the do-while is made; its fetch is made when the size query
\* succeeded, and result is then what the fetch reported.
TurnMade == outPc = "query" /\ answered'.sizes # "none"
Fetched == TurnMade /\ answered'.sizes = "ERROR_SUCCESS"
ReportedInsufficient == Fetched /\ answered'.result = "ERROR_INSUFFICIENT_BUFFER"

\* C21: a turn of getPathInfo's do-while is followed by another turn if and
\* only if its fetch reported ERROR_INSUFFICIENT_BUFFER, and every turn asks
\* the sizes before it fetches (a failed size query leaves result as it
\* was); a failed size query and a fetch that failed otherwise both end the
\* loop with the list emptied and getPathInfo returning false, a fetch that
\* succeeded ends it too; no other statement of the output block is executed
\* twice; and, the fetch reporting ERROR_INSUFFICIENT_BUFFER fewer than
\* MaxTries times in a row, the call returns.
C21_RetryOnlyOnInsufficientBuffer ==
    /\ [][/\ (outPc = "query") = (answered'.sizes # "none")
          /\ (outPc' = outPc) = ReportedInsufficient
          /\ ReportedInsufficient => tries' = tries + 1
          /\ TurnMade =>
                /\ answered'.sizes = "failed" => answered'.result = answered.result
                /\ Fetched => answered'.result # "none"
                /\ (outPc' = "query") = ReportedInsufficient
                /\ (~Fetched \/ answered'.result = "other") =>
                      /\ pathInfos' = <<>>
                      /\ returned'.getPathInfo = "false"
                      /\ outPc' = "dpi"
                /\ (Fetched /\ answered'.result = "ERROR_SUCCESS") =>
                      /\ outPc' = "filter"
                      /\ returned'.getPathInfo = "none"]_vars
    /\ [](outPc = "query" => returned.getPathInfo = "none")
    /\ <>(returned.getPathInfo # "none")

\* C21 witness: the fetch reported ERROR_INSUFFICIENT_BUFFER and the loop is
\* about to take its second turn.
C21_Witness ==
    /\ outPc = "query"
    /\ tries = 1
    /\ answered.result = "ERROR_INSUFFICIENT_BUFFER"

\* ---------------------------------- claims: the order of the path queries
\* The answers to the requests a resolver made are those of the paths
\* 1..Len(asked), every one a failure but possibly the last.
AskedInOrder(asked) ==
    /\ Len(asked) <= Len(pathInfos)
    /\ \A i \in 1..(Len(asked) - 1) : ~asked[i].ok
StoppedAtSuccess(asked) == asked # <<>> /\ asked[Len(asked)].ok
AllFailed(asked) == Len(asked) = Len(pathInfos) /\ \A i \in 1..Len(asked) : ~asked[i].ok

\* C22: getSdrWhiteLevelInNit and getUserFriendlyName ask the filtered paths
\* in the order of the list, one request per path, and go on exactly while
\* the requests fail: a call returns true iff it stopped at a request that
\* succeeded, its output then being computed from that path's answer, and no
\* later path is asked; it returns false, with its output as the caller
\* initialised it, iff every path's request failed or
\* DisplayConfigGetDeviceInfo is not available (no request is made then).
C22_FirstAnsweringPathWins ==
    /\ outPc = "refresh" =>
          LET asked == answered.whiteLevels
          IN  /\ AskedInOrder(asked)
              /\ calls.whiteLevel = Len(asked)
              /\ returned.getSdrWhiteLevelInNit = Bool(StoppedAtSuccess(asked))
              /\ StoppedAtSuccess(asked) =>
                    sdrWhiteLevel = SdrNits(asked[Len(asked)].SDRWhiteLevel)
              /\ ~StoppedAtSuccess(asked) =>
                    /\ sdrWhiteLevel = kDefaultSDRWhiteLevel
                    /\ \/ AllFailed(asked)
                       \/ asked = <<>> /\ "DisplayConfigGetDeviceInfo" \notin resolved
    /\ outPc = "pathEnd" =>
          LET asked == answered.targetNames
          IN  /\ AskedInOrder(asked)
              /\ calls.targetName = Len(asked)
              /\ returned.getUserFriendlyName = Bool(StoppedAtSuccess(asked))
              /\ StoppedAtSuccess(asked) =>
                    userFriendlyName = asked[Len(asked)].monitorFriendlyDeviceName
              /\ ~StoppedAtSuccess(asked) =>
                    /\ userFriendlyName = <<>>
                    /\ \/ AllFailed(asked)
                       \/ asked = <<>> /\ "DisplayConfigGetDeviceInfo" \notin resolved

\* C22 witness: two paths were left by the filter, the request for the
\* first failed and the name comes from the second.
C22_Witness ==
    /\ outPc = "pathEnd"
    /\ Len(pathInfos) = 2
    /\ Len(answered.targetNames) = 2
    /\ ~answered.targetNames[1].ok
    /\ userFriendlyName = <<"D", "E", "L", "L">>

\* ------------------------------------- claims: the handles of the loops
\* C23 as stated: whatever EnumAdapters1 and EnumOutputs answer, GetDesc1
\* and GetDesc are called only through a handle the enumeration call of that
\* index handed out (the body of either loop is entered with its handle
\* held), and no run is ended by the use of a null handle.
C23_DescriptorOnlyThroughHeldHandle ==
    /\ mainPc = "adapterDesc" => adapterEnum = "ok" /\ adapter = "held"
    /\ mainPc = "outputDesc" => outputEnum = "ok" /\ output = "held"
    /\ endedBy # "nullHandle"

====
